---- MODULE Spec2Model ----
(***************************************************************************)
(* ddtrace: the package cache, the batch orchestrator (runWithConfig), the *)
(* incremental regeneration filter and the per-file generation step.       *)
(*                                                                         *)
(* Strings of the program (import paths, directories, file names) are      *)
(* sequences of one-character strings, so that the prefix, suffix and      *)
(* substring tests of the code are computed, not assumed.                  *)
(***************************************************************************)
EXTENDS Integers, Sequences, FiniteSets, TLC

\* ------------------------------------------------------------------------
\* Bounds of the model
\* ------------------------------------------------------------------------
\* goroutines that call PackageCache.load / Seed concurrently
NumGoroutines == 2
\* cache calls made by one goroutine
MaxCalls == 2
\* largest runtime.NumCPU() of the machines considered
MaxCPU == 2
\* runs of the command in one behaviour
MaxRuns == 2
\* last instant of the clock
MaxTime == 2
\* Go files in the directory of a scanned package
MaxFiles == 2
\* type declarations in the file handed to generateFileDecorators
MaxInterfaces == 3
\* methods of the interface handed to the body template
MaxMethods == 2
\* decorator instances (TracingConfig values) of the application
MaxConfigs == 1
\* interfaces of the package whose method sets are resolved
MaxLevels == 3
\* fields (methods and embedded interfaces) of one interface
MaxFields == 3

\* ------------------------------------------------------------------------
\* Strings
\* ------------------------------------------------------------------------
HasPrefix(s, pre) ==
    /\ Len(pre) <= Len(s)
    /\ SubSeq(s, 1, Len(pre)) = pre

HasSuffix(s, suf) ==
    /\ Len(suf) <= Len(s)
    /\ SubSeq(s, Len(s) - Len(suf) + 1, Len(s)) = suf

Contains(s, sub) ==
    \E i \in 1..(Len(s) + 1) :
        /\ i + Len(sub) - 1 <= Len(s)
        /\ SubSeq(s, i, i + Len(sub) - 1) = sub

TrimPrefix(s, pre) == IF HasPrefix(s, pre) THEN SubSeq(s, Len(pre) + 1, Len(s)) ELSE s

TrimSuffix(s, suf) == IF HasSuffix(s, suf) THEN SubSeq(s, 1, Len(s) - Len(suf)) ELSE s

Slash == <<"/">>

\* import paths of two packages of the module "m"
PathA == <<"m", "/", "a">>
PathB == <<"m", "/", "b">>

\* ------------------------------------------------------------------------
\* State
\* ------------------------------------------------------------------------
VARIABLES
    \* PackageCache
    loaded,     \* PackageCache.loaded: import path -> package, NoPkg when absent
    cmu,        \* PackageCache.mu: [readers: set of goroutines, writer: goroutine or 0]
    gpc,        \* position of each goroutine inside load / Seed
    gpath,      \* the path argument of the load call in progress
    gval,       \* the package scanner.Load returned to the goroutine
    gret,       \* the last (package, error) returned by load to the goroutine
    gcalls,     \* number of cache calls the goroutine has started
    loadCalls,  \* per import path: how many times scanner.Load ran
    seeded,     \* the import paths of the maps the finished Seed calls were given
    \* the machine and the files
    fs,         \* file path -> [mtime, content] of every existing file
    now,        \* the clock (time.Now, and the time a write stamps on a file)
    cfg,        \* the Config loaded from .ddtrace.yaml
    pkgErrors,  \* import paths the Go toolchain loads with errors
    numCPU,     \* runtime.NumCPU()
    toolFail,   \* which call of the Go toolchain fails on this machine, if any
    \* one runWithConfig call
    runNo,      \* how many runs have been started
    force,      \* gc.forceRegenerate of the current run
    mpc,        \* position of the main goroutine
    toProcess,  \* the regeneration set, a sequence of ResolvedPackage
    pkgMap,     \* import paths the batch load returned
    si,         \* index of the spawn loop over toProcess
    semCap,     \* capacity of the channel sem
    semCount,   \* number of slots taken in sem
    wgCount,    \* the WaitGroup counter
    firstErr,   \* firstErr
    ret,        \* the value runWithConfig returned
    wpc,        \* position of the goroutine of each toProcess entry
    wk,         \* index of the file group the goroutine generates next
    wgo,        \* wroteGoGenerate of the goroutine's processPackage
    werr,       \* the error its processPackage returned
    \* observations
    writers,    \* output path -> goroutines that wrote or touched it in this run
    calls,      \* number of WriteFile calls in this run
    reported,   \* goroutines in the order they took mu with an error
    startFs,    \* the file system when the current run started
    delta,      \* the files saved between the previous run and the current one
    changed,    \* the files saved since the current run started
    \* one call of a function of the scanner, the resolver or the generator
    input,      \* the argument of the call that is not in fs or cfg
    result,     \* the function called, its arguments and what it returned
    \* package tracing in a running application
    globalContextDecorator, \* globalContextDecorator, NilFunc when unset
    globalSpanOpts,         \* globalSpanOpts
    tracingConfigs,         \* the decorators: the TracingConfig each holds and what it was built from
    span                    \* the span of the traced call in progress and the calls made on it

\* ------------------------------------------------------------------------
\* PackageCache (load, Seed)
\* ------------------------------------------------------------------------
cacheVars == <<loaded, cmu, gpc, gpath, gval, gret, gcalls, loadCalls, seeded>>

envVars == <<fs, now, cfg, pkgErrors, numCPU, toolFail>>

mainVars == <<runNo, force, mpc, toProcess, pkgMap, si, semCap, semCount, wgCount, firstErr, ret>>

workerVars == <<wpc, wk, wgo, werr>>

obsVars == <<writers, calls, reported, startFs, delta, changed>>

runVars == <<envVars, mainVars, workerVars, obsVars>>

traceVars == <<globalContextDecorator, globalSpanOpts, tracingConfigs, span>>

callVars == <<input, result, traceVars>>

vars == <<cacheVars, runVars, callVars>>

Goroutines == 1..NumGoroutines
CachePaths == {PathA, PathB}

\* a *packages.Package: the path it was loaded for and which load produced it
\* (id 0: produced by the batch load and handed to Seed)
Pkg(path, id) == [path |-> path, id |-> id]
NoPkg == [path |-> <<>>, id |-> -1]
NoRet == [pkg |-> NoPkg, err |-> "none"]

\* the maps every Seed call of the model may pass
SeedMaps == {[p \in ps |-> Pkg(p, 0)] : ps \in (SUBSET CachePaths) \ {{}}}

CacheInit ==
    /\ loaded = [p \in CachePaths |-> NoPkg]
    /\ cmu = [readers |-> {}, writer |-> 0]
    /\ gpc = [g \in Goroutines |-> "idle"]
    /\ gpath = [g \in Goroutines |-> <<>>]
    /\ gval = [g \in Goroutines |-> NoPkg]
    /\ gret = [g \in Goroutines |-> NoRet]
    /\ gcalls = [g \in Goroutines |-> 0]
    /\ loadCalls = [p \in CachePaths |-> 0]
    /\ seeded = {}

\* c.mu.RLock() of load
LoadRLock(g, path) ==
    /\ gpc[g] = "idle"
    /\ gcalls[g] < MaxCalls
    /\ cmu.writer = 0
    /\ cmu' = [cmu EXCEPT !.readers = @ \cup {g}]
    /\ gpc' = [gpc EXCEPT ![g] = "rlocked"]
    /\ gpath' = [gpath EXCEPT ![g] = path]
    /\ gcalls' = [gcalls EXCEPT ![g] = @ + 1]
    /\ UNCHANGED <<callVars, runVars, seeded, loaded, gval, gret, loadCalls>>

\* the lookup under the read lock; RUnlock on both branches
LoadCheck(g) ==
    /\ gpc[g] = "rlocked"
    /\ cmu' = [cmu EXCEPT !.readers = @ \ {g}]
    /\ IF loaded[gpath[g]] # NoPkg
         THEN /\ gret' = [gret EXCEPT ![g] = [pkg |-> loaded[gpath[g]], err |-> "nil"]]
              /\ gpc' = [gpc EXCEPT ![g] = "idle"]
         ELSE /\ gpc' = [gpc EXCEPT ![g] = "miss"]
              /\ UNCHANGED gret
    /\ UNCHANGED <<callVars, runVars, seeded, loaded, gpath, gval, gcalls, loadCalls>>

\* scanner.Load(path), outside any lock; an error is returned and not cached
LoadScan(g) ==
    /\ gpc[g] = "miss"
    /\ loadCalls' = [loadCalls EXCEPT ![gpath[g]] = @ + 1]
    /\ \/ /\ gval' = [gval EXCEPT ![g] = Pkg(gpath[g], loadCalls[gpath[g]] + 1)]
          /\ gpc' = [gpc EXCEPT ![g] = "wantLock"]
          /\ UNCHANGED gret
       \/ /\ gret' = [gret EXCEPT ![g] = [pkg |-> NoPkg, err |-> "load"]]
          /\ gpc' = [gpc EXCEPT ![g] = "idle"]
          /\ UNCHANGED gval
    /\ UNCHANGED <<callVars, runVars, seeded, loaded, cmu, gpath, gcalls>>

\* c.mu.Lock() of load
LoadLock(g) ==
    /\ gpc[g] = "wantLock"
    /\ cmu.writer = 0
    /\ cmu.readers = {}
    /\ cmu' = [cmu EXCEPT !.writer = g]
    /\ gpc' = [gpc EXCEPT ![g] = "locked"]
    /\ UNCHANGED <<callVars, runVars, seeded, loaded, gpath, gval, gret, gcalls, loadCalls>>

\* c.loaded[path] = p; c.mu.Unlock(); return p, nil
LoadStore(g) ==
    /\ gpc[g] = "locked"
    /\ loaded' = [loaded EXCEPT ![gpath[g]] = gval[g]]
    /\ cmu' = [cmu EXCEPT !.writer = 0]
    /\ gret' = [gret EXCEPT ![g] = [pkg |-> gval[g], err |-> "nil"]]
    /\ gpc' = [gpc EXCEPT ![g] = "idle"]
    /\ UNCHANGED <<callVars, runVars, seeded, gpath, gval, gcalls, loadCalls>>

\* Seed: c.mu.Lock()
SeedLock(g) ==
    /\ gpc[g] = "idle"
    /\ gcalls[g] < MaxCalls
    /\ cmu.writer = 0
    /\ cmu.readers = {}
    /\ cmu' = [cmu EXCEPT !.writer = g]
    /\ gpc' = [gpc EXCEPT ![g] = "seeding"]
    /\ gcalls' = [gcalls EXCEPT ![g] = @ + 1]
    /\ UNCHANGED <<callVars, runVars, seeded, loaded, gpath, gval, gret, loadCalls>>

\* Seed: the copy loop and the deferred Unlock
SeedStore(g, m) ==
    /\ gpc[g] = "seeding"
    /\ loaded' = [p \in CachePaths |-> IF p \in DOMAIN m THEN m[p] ELSE loaded[p]]
    /\ seeded' = seeded \cup DOMAIN m
    /\ cmu' = [cmu EXCEPT !.writer = 0]
    /\ gpc' = [gpc EXCEPT ![g] = "idle"]
    /\ UNCHANGED <<callVars, runVars, gpath, gval, gret, gcalls, loadCalls>>

CacheNext ==
    \/ \E g \in Goroutines, path \in CachePaths : LoadRLock(g, path)
    \/ \E g \in Goroutines : LoadCheck(g)
    \/ \E g \in Goroutines : LoadScan(g)
    \/ \E g \in Goroutines : LoadLock(g)
    \/ \E g \in Goroutines : LoadStore(g)
    \/ \E g \in Goroutines : SeedLock(g)
    \/ \E g \in Goroutines, m \in SeedMaps : SeedStore(g, m)

\* ------------------------------------------------------------------------
\* Paths and the file system
\* ------------------------------------------------------------------------
\* position of the last "/" of a path at or before i, 0 when there is none
RECURSIVE LastSlashFrom(_, _)
LastSlashFrom(p, i) ==
    IF i = 0 THEN 0
    ELSE IF p[i] = "/" THEN i
    ELSE LastSlashFrom(p, i - 1)

LastSlash(p) == LastSlashFrom(p, Len(p))

\* filepath.Dir and filepath.Base; the empty sequence is the root directory
DirOf(p) == SubSeq(p, 1, LastSlash(p) - 1)

Base(p) == SubSeq(p, LastSlash(p) + 1, Len(p))

\* filepath.Join(dir, rel): one separator between the two, none doubled
JoinPath(dir, rel) ==
    LET r == IF rel # <<>> /\ Head(rel) = "/" THEN Tail(rel) ELSE rel
    IN  IF dir = <<>> THEN r ELSE IF r = <<>> THEN dir ELSE dir \o Slash \o r

GoExt == <<".", "g", "o">>
TestSuffix == <<"_", "t", "e", "s", "t", ".", "g", "o">>
TraceSuffix == <<"_", "t", "r", "a", "c", "e", ".", "g", "o">>
RecursiveSuffix == <<"/", ".", ".", ".">>
GoModName == <<"g", "o", ".", "m", "o", "d">>

\* the directory of the module, its go.mod and the configuration file in it
RootDir == <<"r">>
ModPath == <<"m">>
GoModPath == JoinPath(RootDir, GoModName)
ConfigPath == JoinPath(RootDir, <<"c">>)

MaxOf(S) == IF S = {} THEN 0 ELSE CHOOSE x \in S : \A y \in S : y <= x

\* os.ReadDir: the files directly in dir; it fails when dir does not exist
DirExists(fsys, dir) == \E p \in DOMAIN fsys : HasPrefix(p, dir \o Slash)

ReadDir(fsys, dir) == {p \in DOMAIN fsys : DirOf(p) = dir}

\* a fileModTime that can read no file
zeroModTime(fsys, path) == 0

\* fileModTime: the zero time (0) when the file cannot be read
fileModTime(fsys, path) == IF path \in DOMAIN fsys THEN fsys[path].mtime ELSE 0

\* newestTraceModTime: newest mtime among the *_trace.go files of dir
newestTraceModTime(fsys, dir) ==
    IF ~DirExists(fsys, dir)
      THEN 0
      ELSE MaxOf({0} \cup {fsys[p].mtime : p \in {q \in ReadDir(fsys, dir) : HasSuffix(Base(q), TraceSuffix)}})

\* a sourceNewerThan that also looks at the _test.go files
anyGoFileNewerThan(fsys, srcDir, threshold) ==
    IF ~DirExists(fsys, srcDir)
      THEN TRUE
      ELSE \E p \in ReadDir(fsys, srcDir) :
              HasSuffix(Base(p), GoExt) /\ fsys[p].mtime > threshold

\* sourceNewerThan: some non-test .go file of srcDir is strictly newer
sourceNewerThan(fsys, srcDir, threshold) ==
    IF ~DirExists(fsys, srcDir)
      THEN TRUE
      ELSE \E p \in ReadDir(fsys, srcDir) :
              /\ HasSuffix(Base(p), GoExt)
              /\ ~HasSuffix(Base(p), TestSuffix)
              /\ fsys[p].mtime > threshold

\* parseModulePath over the go.mod of the model: its module line
parseModulePath(content) == content.module

\* findModuleRoot: walk up from startDir to the first go.mod naming a module
RECURSIVE findModuleRoot(_, _)
findModuleRoot(fsys, dir) ==
    LET gomod == JoinPath(dir, GoModName) IN
    IF gomod \in DOMAIN fsys /\ parseModulePath(fsys[gomod].content) # <<>>
      THEN [ok |-> TRUE, root |-> dir, path |-> parseModulePath(fsys[gomod].content)]
      ELSE IF DirOf(dir) = dir
             THEN [ok |-> FALSE, root |-> <<>>, path |-> <<>>]
             ELSE findModuleRoot(fsys, DirOf(dir))

\* importPathToDir: "" (the empty sequence) for a path outside the module
importPathToDir(moduleRoot, modulePath, importPath) ==
    IF ~HasPrefix(importPath, modulePath)
      THEN <<>>
      ELSE JoinPath(moduleRoot, TrimPrefix(importPath, modulePath))

\* ------------------------------------------------------------------------
\* Config and ResolvePackages
\* ------------------------------------------------------------------------
\* the empty map and the nil *PackageConfig
EmptyMap == [x \in {} |-> x]
NoOutput == <<>>
DefaultOutput == <<"t">>

PackageConfig(output, interfaces) == [Output |-> output, Interfaces |-> interfaces]

InterfaceConfig(ignore, decorator, prefix) ==
    [Ignore |-> ignore, DecoratorName |-> decorator, SpanPrefix |-> prefix]

ResolvedPackage(path, pc) == [ImportPath |-> path, Config |-> pc]

\* mergePackageConfig: the global output directory when the package sets none
mergePackageConfig(c, pkgCfg) ==
    IF pkgCfg.Output = NoOutput
      THEN [pkgCfg EXCEPT !.Output = c.Output]
      ELSE pkgCfg

\* shouldExclude: a "/"+entry suffix, or "/"+entry+"/" anywhere
shouldExclude(c, importPath) ==
    \E seg \in c.Exclude :
        \/ HasSuffix(importPath, Slash \o seg)
        \/ Contains(importPath, Slash \o seg \o Slash)

\* the package directories of the module, in the order go list prints them
ModuleDirs ==
    << <<"r", "/", "a">>, <<"r", "/", "a", "/", "t">>, <<"r", "/", "a", "/", "t", "/", "x">>,
       <<"r", "/", "a", "/", "t", "x">>, <<"r", "/", "a", "/", "x">>,
       <<"r", "/", "a", "/", "x", "/", "b">>, <<"r", "/", "a", "/", "x", "t">>,
       <<"r", "/", "b">>, <<"r", "/", "b", "/", "t">>, <<"r", "/", "t">> >>

HasGoFile(fsys, dir) == \E p \in ReadDir(fsys, dir) : HasSuffix(Base(p), GoExt)

\* goListPackages: go list of a pattern "prefix/...": the import paths of the
\* module directories that hold Go files, at or below prefix
goListPackages(fsys, pattern) ==
    LET prefix == TrimSuffix(pattern, RecursiveSuffix)
        ipOf(d) == ModPath \o TrimPrefix(d, RootDir)
        dirs == SelectSeq(ModuleDirs,
                    LAMBDA d : /\ HasGoFile(fsys, d)
                               /\ \/ ipOf(d) = prefix
                                  \/ HasPrefix(ipOf(d), prefix \o Slash))
    IN  [i \in 1..Len(dirs) |-> ipOf(dirs[i])]

\* the expansion filtered by the global output directory alone
ResolvePatternGlobalOutput(c, fsys, pattern) ==
    LET merged == mergePackageConfig(c, c.Packages[pattern])
        outputSuffix == Slash \o c.Output
        kept == SelectSeq(goListPackages(fsys, pattern),
                    LAMBDA p : /\ ~(HasSuffix(p, outputSuffix) \/ Contains(p, outputSuffix \o Slash))
                               /\ ~shouldExclude(c, p))
    IN  IF HasSuffix(pattern, RecursiveSuffix)
          THEN [i \in 1..Len(kept) |-> ResolvedPackage(kept[i], merged)]
          ELSE <<ResolvedPackage(pattern, merged)>>

\* the packages one pattern of c.Packages contributes
ResolvePattern(c, fsys, pattern) ==
    LET merged == mergePackageConfig(c, c.Packages[pattern])
        outputSuffix == Slash \o merged.Output
        kept == SelectSeq(goListPackages(fsys, pattern),
                    LAMBDA p : /\ ~(HasSuffix(p, outputSuffix) \/ Contains(p, outputSuffix \o Slash))
                               /\ ~shouldExclude(c, p))
    IN  IF HasSuffix(pattern, RecursiveSuffix)
          THEN [i \in 1..Len(kept) |-> ResolvedPackage(kept[i], merged)]
          ELSE <<ResolvedPackage(pattern, merged)>>

\* ResolvePackages, for one iteration order of the map c.Packages
RECURSIVE ResolvePackages(_, _, _)
ResolvePackages(c, fsys, order) ==
    IF order = <<>>
      THEN <<>>
      ELSE ResolvePattern(c, fsys, Head(order)) \o ResolvePackages(c, fsys, Tail(order))

\* the iteration orders of a map with the given keys
Orders(keys) ==
    {o \in [1..Cardinality(keys) -> keys] : \A i, j \in DOMAIN o : i # j => o[i] # o[j]}

\* the order in which one loop over a map with the given keys visits them
MapOrder(keys) == CHOOSE o \in Orders(keys) : TRUE

\* ------------------------------------------------------------------------
\* The regeneration set (runWithConfig, incremental part)
\* ------------------------------------------------------------------------
OutDirOf(srcDir, rp) == JoinPath(srcDir, rp.Config.Output)

\* lastRunTime: the newest *_trace.go of all resolved packages of the module
LastRunTime(fsys, resolved, mod) ==
    MaxOf({0} \cup
          {newestTraceModTime(fsys, OutDirOf(importPathToDir(mod.root, mod.path, resolved[i].ImportPath), resolved[i])) :
              i \in {j \in DOMAIN resolved : importPathToDir(mod.root, mod.path, resolved[j].ImportPath) # <<>>}})

\* a filter that keeps every package without output, and a package with
\* output as runWithConfig does
KeepWithoutOutput(fsys, rp, mod, configTime, lastRunTime) ==
    LET srcDir == importPathToDir(mod.root, mod.path, rp.ImportPath)
        newestOutput == newestTraceModTime(fsys, OutDirOf(srcDir, rp))
    IN  \/ srcDir = <<>>
        \/ newestOutput = 0
        \/ sourceNewerThan(fsys, srcDir, newestOutput)
        \/ configTime > newestOutput

\* whether the loop appends rp to filtered
KeepPackage(fsys, rp, mod, configTime, lastRunTime) ==
    LET srcDir == importPathToDir(mod.root, mod.path, rp.ImportPath)
        newestOutput == newestTraceModTime(fsys, OutDirOf(srcDir, rp))
    IN  IF srcDir = <<>>
          THEN TRUE
          ELSE IF newestOutput # 0
                 THEN sourceNewerThan(fsys, srcDir, newestOutput) \/ configTime > newestOutput
                 ELSE \/ lastRunTime = 0
                      \/ sourceNewerThan(fsys, srcDir, lastRunTime)
                      \/ configTime > lastRunTime

\* toProcess of runWithConfig
RegenerationSet(fsys, resolved, forced) ==
    LET mod == findModuleRoot(fsys, DirOf(ConfigPath))
        configTime == fileModTime(fsys, ConfigPath)
        lastRunTime == LastRunTime(fsys, resolved, mod)
    IN  IF forced \/ ~mod.ok
          THEN resolved
          ELSE SelectSeq(resolved, LAMBDA rp : KeepPackage(fsys, rp, mod, configTime, lastRunTime))

\* ------------------------------------------------------------------------
\* Scanning a package (ScanPackage, filterInterfaces)
\* ------------------------------------------------------------------------
\* the characters of the model in byte order
Alphabet == <<".", "/", "_", "a", "b", "c", "d", "e", "g", "m", "o", "r", "s", "t", "x">>

CharRank(ch) == CHOOSE i \in DOMAIN Alphabet : Alphabet[i] = ch

\* string comparison of sort.Strings
RECURSIVE LexLess(_, _)
LexLess(s, t) ==
    IF t = <<>> THEN FALSE
    ELSE IF s = <<>> THEN TRUE
    ELSE IF Head(s) = Head(t) THEN LexLess(Tail(s), Tail(t))
    ELSE CharRank(Head(s)) < CharRank(Head(t))

\* the order sort.Strings would leave the names in if it did nothing
Unsorted(names) == names

\* sort.Strings: the names in increasing order
RECURSIVE SortStrings(_)
SortStrings(names) ==
    IF names = <<>>
      THEN <<>>
      ELSE LET i == CHOOSE k \in DOMAIN names :
                        \A j \in DOMAIN names : ~LexLess(names[j], names[k])
           IN  <<names[i]>>
               \o SortStrings(SubSeq(names, 1, i - 1) \o SubSeq(names, i + 1, Len(names)))

NilErr == [msg |-> "nil", arg |-> <<>>, cause |-> "nil"]

\* the constant ignoreDirective
ignoreDirective ==
    <<"/", "/", "d", "d", "t", "r", "a", "c", "e", ":", "i", "g", "n", "o", "r", "e">>

WhiteSpace == {" ", "\t"}

\* strings.TrimSpace
RECURSIVE TrimLeft(_)
TrimLeft(s) ==
    IF s # <<>> /\ Head(s) \in WhiteSpace THEN TrimLeft(Tail(s)) ELSE s

RECURSIVE TrimRight(_)
TrimRight(s) ==
    IF s # <<>> /\ s[Len(s)] \in WhiteSpace THEN TrimRight(SubSeq(s, 1, Len(s) - 1)) ELSE s

TrimSpace(s) == TrimRight(TrimLeft(s))

\* an *ast.CommentGroup is the sequence of the texts of its comments, the
\* nil group the empty sequence
NilDoc == <<>>

\* hasIgnoreDirective
hasIgnoreDirective(cg) == \E i \in DOMAIN cg : TrimSpace(cg[i]) = ignoreDirective

\* an *ast.TypeSpec: its name, the kind of its type, its doc comment, and how
\* the generator fares on it ("ok", "err": it fails, "bad": it renders text
\* that is not valid Go)
TypeSpec(name, type, doc, render) ==
    [Name |-> name, Type |-> type, Doc |-> doc, render |-> render]

\* a declaration of a file: an *ast.GenDecl with its token, doc comment and
\* specs, or (Tok = "func") a declaration that is not a GenDecl
GenDecl(tok, doc, specs) == [Tok |-> tok, Doc |-> doc, Specs |-> specs]

\* "type name interface{...}" or "type name struct{...}" on a line of its own,
\* with the directive as its doc comment when ignored
Decl(name, isIface, ignored, render) ==
    GenDecl("type",
            IF ignored THEN <<ignoreDirective>> ELSE NilDoc,
            <<TypeSpec(name, IF isIface THEN "interface" ELSE "struct", NilDoc, render)>>)

\* an *ast.File
SourceFile(decls) == [decls |-> decls]

\* a scan of the specs that looks at the doc comment of the spec only
scanSpecsOwnDoc(gd) ==
    LET kept == SelectSeq(gd.Specs,
                    LAMBDA ts : ts.Type = "interface" /\ ~hasIgnoreDirective(ts.Doc))
    IN  [i \in 1..Len(kept) |-> [Name |-> kept[i].Name]]

\* the inner loop of scanFile over gd.Specs
scanSpecs(gd) ==
    LET kept == SelectSeq(gd.Specs,
                    LAMBDA ts : /\ ts.Type = "interface"
                                /\ ~(hasIgnoreDirective(gd.Doc) \/ hasIgnoreDirective(ts.Doc)))
    IN  [i \in 1..Len(kept) |-> [Name |-> kept[i].Name]]

\* the outer loop of scanFile over f.Decls
RECURSIVE scanDecls(_)
scanDecls(decls) ==
    IF decls = <<>>
      THEN <<>>
      ELSE (IF Head(decls).Tok = "type" THEN scanSpecs(Head(decls)) ELSE <<>>)
           \o scanDecls(Tail(decls))

\* scanFile: the interface declarations without //ddtrace:ignore, in source order
scanFile(f) == scanDecls(f.decls)

\* the Go files parser.ParseDir reads in the package directory
ASTFiles(fsys, dir) == {p \in ReadDir(fsys, dir) : HasSuffix(Base(p), GoExt)}

\* pkg.AST: the parsed files of the package, by full path
AST(fsys, dir) == [Files |-> [path \in ASTFiles(fsys, dir) |-> fsys[path].content]]

\* a skip test that knows test files only
SkipTestFile(baseName) == HasSuffix(baseName, TestSuffix)

\* the skip test of ScanPackage: test files and generated files
SkipFile(baseName) ==
    HasSuffix(baseName, TestSuffix) \/ HasSuffix(baseName, TraceSuffix)

\* ScanPackage, when the loop over the map p.Files visits the keys in the
\* given order: the file groups and the error it returns
ScanPackage(p, order) ==
    LET fileNames == SortStrings(order)
        kept == SelectSeq(fileNames,
                    LAMBDA fullPath : /\ ~SkipFile(Base(fullPath))
                                      /\ Len(scanFile(p.Files[fullPath])) > 0)
    IN  [files |-> [i \in 1..Len(kept) |->
                       [FileName |-> Base(kept[i]),
                        Interfaces |-> scanFile(p.Files[kept[i]])]],
         err |-> NilErr]

\* filterInterfaces: drop the interfaces the package config ignores, and the
\* file groups left empty
filterInterfaces(fileGroups, pkgCfg) ==
    LET ignored(iface) ==
            /\ iface.Name \in DOMAIN pkgCfg.Interfaces
            /\ pkgCfg.Interfaces[iface.Name].Ignore
        filt(fg) == SelectSeq(fg.Interfaces, LAMBDA iface : ~ignored(iface))
        groups == SelectSeq(fileGroups, LAMBDA fg : Len(filt(fg)) > 0)
    IN  IF DOMAIN pkgCfg.Interfaces = {}
          THEN fileGroups
          ELSE [i \in 1..Len(groups) |->
                   [FileName |-> groups[i].FileName, Interfaces |-> filt(groups[i])]]

\* ------------------------------------------------------------------------
\* Generating one output file (generateFileDecorators)
\* ------------------------------------------------------------------------
NoName == <<>>

\* the type declarations of a file (typeSpecs of the generator)
RECURSIVE typeSpecs(_)
typeSpecs(decls) ==
    IF decls = <<>>
      THEN <<>>
      ELSE (IF Head(decls).Tok = "type" THEN Head(decls).Specs ELSE <<>>)
           \o typeSpecs(Tail(decls))

\* the declaration of an interface in the parsed source file
DeclOf(f, name) ==
    LET specs == typeSpecs(f.decls)
    IN  specs[CHOOSE i \in DOMAIN specs : specs[i].Name = name]

\* the template variables generateFileDecorators builds for one interface
InterfaceVars(interfaceConfigs, name) ==
    IF name \in DOMAIN interfaceConfigs
      THEN [DecoratorName |-> interfaceConfigs[name].DecoratorName,
            SpanNamePrefix |-> interfaceConfigs[name].SpanPrefix]
      ELSE [DecoratorName |-> NoName, SpanNamePrefix |-> NoName]

\* A text is a sequence of lines and a line a sequence of words, blanks and
\* tabs being words of their own.
\* a method of a resolved interface: its name, its parameters and its results
Param(name, type) == [Name |-> name, Type |-> type]

Method(name, params, results) == [Name |-> name, Params |-> params, Results |-> results]

ContextType == "context.Context"
ErrorType == "error"

\* Method.AcceptsContext: the first parameter is a context
AcceptsContext(m) == Len(m.Params) > 0 /\ m.Params[1].Type = ContextType

\* Method.ReturnsError: the last result is an error
ReturnsError(m) == Len(m.Results) > 0 /\ m.Results[Len(m.Results)].Type = ErrorType

\* the lines the range block of datadogTemplate emits for one method
WrapperLines(decorator, spanNameType, m) ==
    << <<" ", "//", " ", m.Name>>,
       <<"func", " ", "(_d", " ">> \o decorator \o <<")", " ", m.Name>>,
       <<" ", "StartSpan", " ">> \o spanNameType \o <<".", m.Name>>,
       <<" ", "FinishSpan", " ", IF ReturnsError(m) THEN "err" ELSE "nil">>,
       <<" ", "_d.", m.Name>>,
       <<"}">> >>

\* a range block without the if: a wrapper for every method
RECURSIVE WrapEveryMethod(_, _, _)
WrapEveryMethod(decorator, spanNameType, methods) ==
    IF methods = <<>>
      THEN <<>>
      ELSE WrapperLines(decorator, spanNameType, Head(methods))
           \o WrapEveryMethod(decorator, spanNameType, Tail(methods))

\* {{range $method := .Interface.Methods}}{{if $method.AcceptsContext}}...
RECURSIVE MethodLines(_, _, _)
MethodLines(decorator, spanNameType, methods) ==
    IF methods = <<>>
      THEN <<>>
      ELSE (IF AcceptsContext(Head(methods))
              THEN WrapperLines(decorator, spanNameType, Head(methods))
              ELSE <<>>)
           \o MethodLines(decorator, spanNameType, Tail(methods))

\* datadogTemplate executed for an interface [Name, Methods] with the
\* template variables tvars
datadogTemplate(iface, tvars) ==
    LET decorator == IF tvars.DecoratorName # NoName
                       THEN tvars.DecoratorName
                       ELSE <<iface.Name, "WithTracing">>
        spanNameType == IF tvars.SpanNamePrefix # NoName
                          THEN tvars.SpanNamePrefix
                          ELSE <<iface.Name>>
    IN  << <<"import", " ", "(">>,
           <<" ", "context">>,
           <<" ", "tracing">>,
           <<")">>,
           <<>>,
           <<"//", " ">> \o decorator,
           <<"type", " ">> \o decorator,
           <<" ", iface.Name>>,
           <<"}">>,
           <<"func", " ", "New">> \o decorator,
           <<"}">> >>
        \o MethodLines(decorator, spanNameType, iface.Methods)

\* minimalHeaderTemplate: the package clause and the imports of the options
minimalHeaderTemplate(packageName, optionImports) ==
    << <<"package", " ", packageName>>, <<>>, <<"import(">> >>
    \o [i \in DOMAIN optionImports |-> <<"\t", optionImports[i]>>]
    \o << <<")">> >>

\* the methods the resolver finds for an interface the generator can render
RenderedMethods ==
    << Method("M", <<Param("ctx", ContextType)>>, <<Param("err", ErrorType)>>) >>

\* generateInterfaceOutput: the generator's text for one interface (header
\* template, then body template), or its error
generateInterfaceOutput(f, name, tvars) ==
    LET d == DeclOf(f, name) IN
    [err |-> d.render = "err",
     text |-> minimalHeaderTemplate("trace", <<"_sourcePkg">>)
              \o datadogTemplate([Name |-> name, Methods |-> RenderedMethods], tvars)
              \o (IF d.render = "bad" THEN << <<"!">> >> ELSE <<>>)]

IsPackageLine(line) == HasPrefix(TrimSpace(line), <<"package", " ">>)

\* strings.TrimLeft(rest, "\n"): without the empty lines at the front
RECURSIVE TrimLeftNewlines(_)
TrimLeftNewlines(lines) ==
    IF lines # <<>> /\ Head(lines) = <<>> THEN TrimLeftNewlines(Tail(lines)) ELSE lines

\* extractAfterPackage: the text after its first package clause
extractAfterPackage(content) ==
    IF \E i \in DOMAIN content : IsPackageLine(content[i])
      THEN LET i == CHOOSE k \in DOMAIN content :
                        /\ IsPackageLine(content[k])
                        /\ \A j \in 1..(k - 1) : ~IsPackageLine(content[j])
           IN  TrimLeftNewlines(SubSeq(content, i + 1, Len(content)))
      ELSE content

\* the loop of extractBodyOnly over the lines
RECURSIVE BodyLines(_, _, _)
BodyLines(lines, inImportBlock, foundBody) ==
    IF lines = <<>>
      THEN <<>>
      ELSE LET line == Head(lines)
               trimmed == TrimSpace(Head(lines))
           IN  IF /\ ~foundBody
                  /\ (HasPrefix(trimmed, <<"import", " ", "(">>) \/ trimmed = <<"import(">>)
                 THEN BodyLines(Tail(lines), TRUE, foundBody)
               ELSE IF /\ ~foundBody
                       /\ HasPrefix(trimmed, <<"import", " ">>)
                       /\ ~Contains(trimmed, <<"(">>)
                 THEN BodyLines(Tail(lines), inImportBlock, foundBody)
               ELSE IF inImportBlock
                 THEN BodyLines(Tail(lines), trimmed # <<")">>, foundBody)
               ELSE IF /\ ~foundBody
                       /\ \/ trimmed = <<>>
                          \/ HasPrefix(trimmed, <<"package", " ">>)
                          \/ HasPrefix(trimmed, <<"//">>)
                 THEN BodyLines(Tail(lines), FALSE, FALSE)
               ELSE <<line>> \o BodyLines(Tail(lines), FALSE, TRUE)

RECURSIVE TrimTrailingEmpty(_)
TrimTrailingEmpty(lines) ==
    IF lines # <<>> /\ TrimSpace(lines[Len(lines)]) = <<>>
      THEN TrimTrailingEmpty(SubSeq(lines, 1, Len(lines) - 1))
      ELSE lines

\* extractBodyOnly: the text without package clause, imports and leading
\* comments
extractBodyOnly(content) == TrimTrailingEmpty(BodyLines(content, FALSE, FALSE))

\* a loop over fg.Interfaces that never sets generatedAny
RECURSIVE RenderPartsAllFirst(_, _, _, _)
RenderPartsAllFirst(f, ifaces, interfaceConfigs, generatedAny) ==
    IF ifaces = <<>>
      THEN <<>>
      ELSE LET out == generateInterfaceOutput(f, Head(ifaces).Name,
                                              InterfaceVars(interfaceConfigs, Head(ifaces).Name))
           IN  IF out.err
                 THEN RenderPartsAllFirst(f, Tail(ifaces), interfaceConfigs, generatedAny)
                 ELSE <<extractAfterPackage(out.text)>>
                      \o RenderPartsAllFirst(f, Tail(ifaces), interfaceConfigs, generatedAny)

\* a loop over fg.Interfaces that ends at the first interface that fails
RECURSIVE RenderPartsUntilError(_, _, _, _)
RenderPartsUntilError(f, ifaces, interfaceConfigs, generatedAny) ==
    IF ifaces = <<>>
      THEN <<>>
      ELSE LET out == generateInterfaceOutput(f, Head(ifaces).Name,
                                              InterfaceVars(interfaceConfigs, Head(ifaces).Name))
           IN  IF out.err
                 THEN <<>>
                 ELSE <<IF ~generatedAny THEN extractAfterPackage(out.text)
                                         ELSE extractBodyOnly(out.text)>>
                      \o RenderPartsUntilError(f, Tail(ifaces), interfaceConfigs, TRUE)

\* the loop over fg.Interfaces: the texts written to buf, one per interface
\* that rendered
RECURSIVE RenderParts(_, _, _, _)
RenderParts(f, ifaces, interfaceConfigs, generatedAny) ==
    IF ifaces = <<>>
      THEN <<>>
      ELSE LET out == generateInterfaceOutput(f, Head(ifaces).Name,
                                              InterfaceVars(interfaceConfigs, Head(ifaces).Name))
           IN  IF out.err
                 THEN RenderParts(f, Tail(ifaces), interfaceConfigs, generatedAny)
                 ELSE <<IF ~generatedAny THEN extractAfterPackage(out.text)
                                         ELSE extractBodyOnly(out.text)>>
                      \o RenderParts(f, Tail(ifaces), interfaceConfigs, TRUE)

\* the header generateFileDecorators writes to buf before the loop
FileHeader(fileName, outPkgName, includeGoGenerate) ==
    << <<"//", " ", "Code generated by ddtrace. DO NOT EDIT.">>,
       <<"//", " ", "source:", " ">> \o fileName,
       <<"//", " ", "ddtrace:">>,
       <<>>,
       <<"package", " ">> \o outPkgName,
       <<>> >>
    \o (IF includeGoGenerate THEN << <<"//", "go:generate", " ", "ddtrace gen">>, <<>> >> ELSE <<>>)

\* buf after the loop: the header, then each text followed by a newline
RECURSIVE JoinParts(_)
JoinParts(parts) ==
    IF parts = <<>> THEN <<>> ELSE Head(parts) \o << <<>> >> \o JoinParts(Tail(parts))

\* the kind of each line of a Go file, given the lines without the blanks
\* around them
RECURSIVE LineKinds(_, _)
LineKinds(trimmed, inImportBlock) ==
    IF trimmed = <<>>
      THEN <<>>
      ELSE LET t == Head(trimmed)
               kind == IF inImportBlock
                         THEN (IF t = <<")">> THEN "close" ELSE IF t = <<>> THEN "blank" ELSE "spec")
                       ELSE IF t = <<>> THEN "blank"
                       ELSE IF HasPrefix(t, <<"import", " ", "(">>) \/ t = <<"import(">> THEN "open"
                       ELSE IF HasPrefix(t, <<"package", " ">>) THEN "package"
                       ELSE IF HasPrefix(t, <<"//">>) THEN "comment"
                       ELSE "code"
           IN  <<kind>> \o LineKinds(Tail(trimmed), kind = "open" \/ (inImportBlock /\ kind # "close"))

\* imports.Process on lines of the given kinds: an error when the text is
\* not a Go file (text that is no Go, an import after a declaration, not
\* exactly one package clause on top), else the file with one import block
\* and without blank lines
FormatGoFile(trimmed, kinds) ==
    LET idx == [i \in DOMAIN trimmed |-> i]
        at(k) == {i \in DOMAIN kinds : kinds[i] = k}
        kept == SelectSeq(idx, LAMBDA i : kinds[i] \in {"package", "comment", "code"})
    IN  [err |-> \/ \E i \in at("code") : trimmed[i] = <<"!">>
                 \/ \E i \in at("code"), j \in at("open") : i < j
                 \/ Cardinality(at("package")) # 1
                 \/ \E i \in at("code") \cup at("open"), j \in at("package") : i < j,
         out |-> [text |-> [n \in DOMAIN kept |-> trimmed[kept[n]]],
                  imports |-> {trimmed[i] : i \in at("spec")}]]

\* imports.Process: the formatted file with a merged import block, or an error
ProcessImports(buf) ==
    CHOOSE r \in UNION {{FormatGoFile(t, k) : k \in {LineKinds(t, FALSE)}} :
                          t \in {[i \in DOMAIN buf |-> TrimSpace(buf[i])]}} : TRUE

\* generateFileDecorators up to the comparison with the existing file: the
\* texts of the interfaces that rendered, the formatting error, the bytes to
\* write
RenderFile(f, fg, outFilePath, includeGoGenerate, interfaceConfigs) ==
    CHOOSE r \in UNION
      {{[parts |-> parts,
         generatedAny |-> parts # <<>>,
         err |-> parts # <<>> /\ processed.err,
         processed |-> processed.out] :
           processed \in {ProcessImports(FileHeader(fg.FileName, Base(DirOf(outFilePath)),
                                                    includeGoGenerate)
                                         \o JoinParts(parts))}} :
        parts \in {RenderParts(f, fg.Interfaces, interfaceConfigs, FALSE)}} : TRUE

\* an end of generateFileDecorators that never compares and always writes
AlwaysWrite(fsys, outFilePath, processed) == "write"

\* what the end of generateFileDecorators does with the processed bytes
WriteAction(fsys, outFilePath, processed) ==
    IF outFilePath \in DOMAIN fsys /\ fsys[outFilePath].content = processed
      THEN "touch"
      ELSE "write"

\* os.Chtimes / WriteFile on the file system of the model
PutFile(fsys, path, mtime, content) ==
    [p \in DOMAIN fsys \cup {path} |->
        IF p = path THEN [mtime |-> mtime, content |-> content] ELSE fsys[p]]

\* the file system after the end of generateFileDecorators at time t
ApplyOutput(fsys, outFilePath, processed, t) ==
    IF WriteAction(fsys, outFilePath, processed) = "touch"
      THEN PutFile(fsys, outFilePath, t, fsys[outFilePath].content)
      ELSE PutFile(fsys, outFilePath, t, processed)

\* ------------------------------------------------------------------------
\* runWithConfig
\* ------------------------------------------------------------------------
\* errors.New, errors.Wrap / errors.Wrapf
NewErr(msg) == [msg |-> msg, arg |-> <<>>, cause |-> "nil"]

Wrapf(err, msg, arg) == [msg |-> msg, arg |-> arg, cause |-> err.msg]

IsAbs(p) == HasPrefix(p, Slash)

\* pkg.Dir of a loaded package of the module: the directory of its files
PkgDir(importPath) == JoinPath(RootDir, TrimPrefix(importPath, ModPath))

\* GoFiles of a loaded package: its non-test Go files
GoFiles(fsys, importPath) ==
    {p \in ReadDir(fsys, PkgDir(importPath)) :
        HasSuffix(Base(p), GoExt) /\ ~HasSuffix(Base(p), TestSuffix)}

\* LoadAll: the packages of paths that load without errors
LoadAll(paths, errs) == {paths[i] : i \in DOMAIN paths} \ errs

\* a loop that skips only the packages missing from the batch-load result
SkippedIfAbsent(fsys, loadedPaths, rp) == rp.ImportPath \notin loadedPaths

\* the loop of runWithConfig skips the package instead of starting a goroutine
Skipped(fsys, loadedPaths, rp) ==
    \/ rp.ImportPath \notin loadedPaths
    \/ GoFiles(fsys, rp.ImportPath) = {}

\* a semaphore with one slot per package, whatever runtime.NumCPU() is
WorkerSlotsPerJob(cpus, jobs) == jobs

\* workers: runtime.NumCPU(), capped at len(toProcess)
WorkerSlots(cpus, jobs) == IF cpus > jobs THEN jobs ELSE cpus

\* the output directory and the output path processPackage computes
OutDir(rp) ==
    IF IsAbs(rp.Config.Output)
      THEN rp.Config.Output
      ELSE JoinPath(PkgDir(rp.ImportPath), rp.Config.Output)

OutFilePath(rp, fg) == JoinPath(OutDir(rp), TrimSuffix(fg.FileName, GoExt) \o TraceSuffix)

\* the file groups processPackage iterates over
FileGroups(fsys, rp) ==
    LET p == AST(fsys, PkgDir(rp.ImportPath))
    IN  filterInterfaces(ScanPackage(p, MapOrder(DOMAIN p.Files)).files, rp.Config)

\* one iteration of the loop of processPackage over groups, for file group k:
\* the error generateFileDecorators returns, the file system it leaves, the
\* number of WriteFile calls it makes, the output path it wrote or touched
GenStep(fsys, c, rp, groups, k, wroteGoGenerate, t) ==
    LET fg == groups[k]
        path == OutFilePath(rp, fg)
        includeGoGenerate == ~c.NoGenerate /\ ~wroteGoGenerate
        src == fsys[JoinPath(PkgDir(rp.ImportPath), fg.FileName)].content
    IN  CHOOSE g \in
          {[err |-> IF r.err
                      THEN Wrapf(NewErr("failed to format generated code"),
                                 "failed to generate for", fg.FileName)
                      ELSE NilErr,
            fs |-> IF r.generatedAny /\ ~r.err
                     THEN ApplyOutput(fsys, path, r.processed, t)
                     ELSE fsys,
            writes |-> IF /\ r.generatedAny /\ ~r.err
                          /\ WriteAction(fsys, path, r.processed) = "write"
                         THEN 1 ELSE 0,
            touched |-> IF r.generatedAny /\ ~r.err THEN {path} ELSE {},
            parts |-> r.parts,
            wroteGoGenerate |-> wroteGoGenerate \/ includeGoGenerate] :
              r \in {RenderFile(src, fg, path, includeGoGenerate, rp.Config.Interfaces)}} : TRUE

\* the effects of the iteration g of processPackage's loop followed by the
\* effects rest of the later iterations
ThenFiles(g, rest) ==
    [err |-> rest.err, fs |-> rest.fs,
     writes |-> g.writes + rest.writes,
     touched |-> g.touched \cup rest.touched,
     k |-> rest.k, wroteGoGenerate |-> rest.wroteGoGenerate]

\* processPackage from file group k on: the error it returns and its effects;
\* the loop ends at the first error (g and rest each range over one value)
RECURSIVE ProcessFiles(_, _, _, _, _, _, _)
ProcessFiles(fsys, c, rp, groups, k, wroteGoGenerate, t) ==
    IF k > Len(groups)
      THEN [err |-> NilErr, fs |-> fsys, writes |-> 0, touched |-> {},
            k |-> k, wroteGoGenerate |-> wroteGoGenerate]
      ELSE CHOOSE r \in
             {IF g.err # NilErr
                THEN [err |-> g.err, fs |-> g.fs, writes |-> g.writes, touched |-> g.touched,
                      k |-> k + 1, wroteGoGenerate |-> g.wroteGoGenerate]
                ELSE CHOOSE q \in
                       {ThenFiles(g, rest) :
                          rest \in {ProcessFiles(g.fs, c, rp, groups, k + 1, g.wroteGoGenerate, t)}} :
                       TRUE :
              g \in {GenStep(fsys, c, rp, groups, k, wroteGoGenerate, t)}} : TRUE

processPackage(fsys, c, rp, t) == ProcessFiles(fsys, c, rp, FileGroups(fsys, rp), 1, FALSE, t)

OutContents(fsys) ==
    [p \in {q \in DOMAIN fsys : HasSuffix(Base(q), TraceSuffix)} |-> fsys[p].content]

AddWriter(ws, paths, i) ==
    [p \in DOMAIN ws \cup paths |->
        IF p \in paths
          THEN (IF p \in DOMAIN ws THEN ws[p] ELSE {}) \cup {i}
          ELSE ws[p]]

Workers == DOMAIN toProcess

Idle == mpc \in {"idle", "returned"}

\* the calls of runWithConfig's setup that may fail on a machine
ToolFailures == {"none", "golist", "loadall", "header", "body"}

\* a setup in which a failed template parse goes unnoticed
SetupErrorTemplatesUnchecked(c, regen, fail) ==
    IF DOMAIN c.Packages = {}
      THEN Wrapf(NewErr("no packages defined in config"),
                 "failed to resolve packages from config", <<>>)
    ELSE IF fail = "golist" /\ \E pat \in DOMAIN c.Packages : HasSuffix(pat, RecursiveSuffix)
      THEN Wrapf(NewErr("failed to resolve pattern"),
                 "failed to resolve packages from config", <<>>)
    ELSE IF Len(regen) > 0 /\ fail = "loadall"
      THEN Wrapf(NewErr("packages.Load"), "failed to batch-load source packages", <<>>)
    ELSE NilErr

\* the error runWithConfig returns before it starts any goroutine, if any
SetupError(c, regen, fail) ==
    IF DOMAIN c.Packages = {}
      THEN Wrapf(NewErr("no packages defined in config"),
                 "failed to resolve packages from config", <<>>)
    ELSE IF fail = "golist" /\ \E pat \in DOMAIN c.Packages : HasSuffix(pat, RecursiveSuffix)
      THEN Wrapf(NewErr("failed to resolve pattern"),
                 "failed to resolve packages from config", <<>>)
    ELSE IF Len(regen) > 0 /\ fail = "loadall"
      THEN Wrapf(NewErr("packages.Load"), "failed to batch-load source packages", <<>>)
    ELSE IF Len(regen) > 0 /\ fail = "header"
      THEN Wrapf(NewErr("template"), "failed to parse header template", <<>>)
    ELSE IF Len(regen) > 0 /\ fail = "body"
      THEN Wrapf(NewErr("template"), "failed to parse body template", <<>>)
    ELSE NilErr

\* the part of runWithConfig before the first goroutine: ResolvePackages, the
\* regeneration set, LoadAll, the semaphore
RunSetup(c, fsys, f, order, errs, fail, cpus) ==
    LET resolved == ResolvePackages(c, fsys, order)
        regen == IF DOMAIN c.Packages = {} THEN <<>> ELSE RegenerationSet(fsys, resolved, f)
        paths == [i \in DOMAIN regen |-> regen[i].ImportPath]
        early == SetupError(c, regen, fail)
        starts == early = NilErr /\ Len(regen) > 0
    IN  [toProcess |-> regen,
         early |-> early,
         starts |-> starts,
         pkgMap |-> IF starts THEN LoadAll(paths, errs) ELSE {},
         semCap |-> IF starts THEN WorkerSlots(cpus, Len(regen)) ELSE 0]

\* pkgCache.Seed(pkgMap) on a new cache
SeedCache(pkgs) == [p \in CachePaths |-> IF p \in pkgs THEN Pkg(p, 0) ELSE NoPkg]

\* runWithConfig up to its loop over toProcess, or up to its early return
RunStart(f, order) ==
    /\ Idle
    /\ runNo < MaxRuns
    /\ runNo' = runNo + 1
    /\ force' = f
    /\ \E s \in {RunSetup(cfg, fs, f, order, pkgErrors, toolFail, numCPU)} :
           /\ mpc' = IF s.starts THEN "spawn" ELSE "returned"
           /\ ret' = s.early
           /\ toProcess' = s.toProcess
           /\ pkgMap' = s.pkgMap
           /\ loaded' = IF s.starts THEN SeedCache(s.pkgMap) ELSE loaded
           /\ seeded' = IF s.starts THEN s.pkgMap \cap CachePaths ELSE seeded
           /\ semCap' = s.semCap
           /\ wpc' = [i \in DOMAIN s.toProcess |-> "none"]
           /\ wk' = [i \in DOMAIN s.toProcess |-> 1]
           /\ wgo' = [i \in DOMAIN s.toProcess |-> FALSE]
           /\ werr' = [i \in DOMAIN s.toProcess |-> NilErr]
    /\ si' = 1
    /\ semCount' = 0
    /\ wgCount' = 0
    /\ firstErr' = NilErr
    /\ writers' = EmptyMap
    /\ calls' = 0
    /\ reported' = <<>>
    /\ startFs' = fs
    /\ delta' = changed
    /\ changed' = {}
    /\ UNCHANGED <<callVars, envVars, cmu, gpc, gpath, gval, gret, gcalls, loadCalls>>

\* one iteration of the loop over toProcess: skip the package, or wg.Add(1)
\* and start its goroutine
Spawn ==
    /\ mpc = "spawn"
    /\ si <= Len(toProcess)
    /\ IF Skipped(fs, pkgMap, toProcess[si])
         THEN UNCHANGED <<callVars, wgCount, wpc>>
         ELSE /\ wgCount' = wgCount + 1
              /\ wpc' = [wpc EXCEPT ![si] = "start"]
    /\ si' = si + 1
    /\ UNCHANGED <<callVars, cacheVars, envVars, runNo, force, mpc, toProcess, pkgMap, semCap,
                   semCount, firstErr, ret, wk, wgo, werr, obsVars>>

\* sem <- struct{}{}
Acquire(i) ==
    /\ wpc[i] = "start"
    /\ semCount < semCap
    /\ semCount' = semCount + 1
    /\ wpc' = [wpc EXCEPT ![i] = "run"]
    /\ UNCHANGED <<callVars, cacheVars, envVars, runNo, force, mpc, toProcess, pkgMap, si, semCap,
                   wgCount, firstErr, ret, wk, wgo, werr, obsVars>>

\* a goroutine that gives its slot back only when processPackage succeeded
AfterProcessKeepsSlotOnFailure(err) == IF err # NilErr THEN "wgdone" ELSE "release"

\* where the goroutine is after processPackage returned err
AfterProcess(err) == IF err # NilErr THEN "report" ELSE "release"

\* processPackage, one file group at a time: from "run" its beginning (AST,
\* ScanPackage, filterInterfaces, MkdirAll) and the first iteration of its
\* loop, from "files" the next iteration; after the last one it returns
GenFile(i) ==
    /\ wpc[i] \in {"run", "files"}
    /\ LET rp == toProcess[i]
           groups == FileGroups(fs, rp)
       IN  IF Len(groups) = 0
             THEN /\ wpc' = [wpc EXCEPT ![i] = AfterProcess(NilErr)]
                  /\ UNCHANGED <<callVars, fs, wk, wgo, werr, writers, calls>>
             ELSE LET g == GenStep(fs, cfg, rp, groups, wk[i], wgo[i], now)
                  IN  /\ fs' = g.fs
                      /\ werr' = [werr EXCEPT ![i] = g.err]
                      /\ wgo' = [wgo EXCEPT ![i] = g.wroteGoGenerate]
                      /\ wk' = [wk EXCEPT ![i] = @ + 1]
                      /\ wpc' = [wpc EXCEPT ![i] =
                                    IF g.err = NilErr /\ wk[i] < Len(groups)
                                      THEN "files"
                                      ELSE AfterProcess(g.err)]
                      /\ writers' = AddWriter(writers, g.touched, i)
                      /\ calls' = calls + g.writes
    /\ UNCHANGED <<callVars, cacheVars, now, cfg, pkgErrors, numCPU, toolFail, mainVars, reported,
                   startFs, delta, changed>>

\* a firstErr that every failing goroutine overwrites
RecordLastError(first, err, path) == Wrapf(err, "failed to generate for package", path)

\* firstErr after a goroutine with error err for package path held mu
RecordError(first, err, path) ==
    IF first = NilErr
      THEN Wrapf(err, "failed to generate for package", path)
      ELSE first

\* mu.Lock(); if firstErr == nil { firstErr = Wrapf(...) }; mu.Unlock()
Report(i) ==
    /\ wpc[i] = "report"
    /\ firstErr' = RecordError(firstErr, werr[i], toProcess[i].ImportPath)
    /\ reported' = Append(reported, i)
    /\ wpc' = [wpc EXCEPT ![i] = "release"]
    /\ UNCHANGED <<callVars, cacheVars, envVars, runNo, force, mpc, toProcess, pkgMap, si, semCap,
                   semCount, wgCount, ret, wk, wgo, werr, writers, calls, startFs, delta,
                   changed>>

\* the deferred <-sem
Release(i) ==
    /\ wpc[i] = "release"
    /\ semCount' = semCount - 1
    /\ wpc' = [wpc EXCEPT ![i] = "wgdone"]
    /\ UNCHANGED <<callVars, cacheVars, envVars, runNo, force, mpc, toProcess, pkgMap, si, semCap,
                   wgCount, firstErr, ret, wk, wgo, werr, obsVars>>

\* the deferred wg.Done()
Done(i) ==
    /\ wpc[i] = "wgdone"
    /\ wgCount' = wgCount - 1
    /\ wpc' = [wpc EXCEPT ![i] = "done"]
    /\ UNCHANGED <<callVars, cacheVars, envVars, runNo, force, mpc, toProcess, pkgMap, si, semCap,
                   semCount, firstErr, ret, wk, wgo, werr, obsVars>>

\* a wait that never blocks
WaitOverAtOnce(count) == TRUE

\* wg.Wait() is over when the counter is zero
WaitOver(count) == count = 0

\* wg.Wait(); return firstErr
Return ==
    /\ mpc = "spawn"
    /\ si > Len(toProcess)
    /\ WaitOver(wgCount)
    /\ mpc' = "returned"
    /\ ret' = firstErr
    /\ UNCHANGED <<callVars, cacheVars, envVars, runNo, force, toProcess, pkgMap, si, semCap,
                   semCount, wgCount, firstErr, workerVars, obsVars>>

\* the effects r of goroutine i followed by the effects rest of the later ones
ThenJobs(i, r, rest) ==
    [fs |-> rest.fs,
     errs |-> (i :> r.err) @@ rest.errs,
     ks |-> (i :> r.k) @@ rest.ks,
     wgos |-> (i :> r.wroteGoGenerate) @@ rest.wgos,
     writes |-> r.writes + rest.writes,
     writers |-> AddWriter(rest.writers, r.touched, i)]

\* the goroutines of one run taken one after the other, in the order sched in
\* which they hold the semaphore: the file system they leave, the error of
\* each, the WriteFile calls, who wrote which path (r and rest each range
\* over one value)
RECURSIVE RunJobs(_, _, _, _, _)
RunJobs(fsys, c, regen, sched, t) ==
    IF sched = <<>>
      THEN [fs |-> fsys, errs |-> EmptyMap, ks |-> EmptyMap, wgos |-> EmptyMap,
            writes |-> 0, writers |-> EmptyMap]
      ELSE CHOOSE q \in
             {ThenJobs(Head(sched), r[1], r[2]) :
                r \in {<<x, RunJobs(x.fs, c, regen, Tail(sched), t)>> :
                         x \in {processPackage(fsys, c, regen[Head(sched)], t)}}} : TRUE

\* a whole call of runWithConfig whose goroutines hold the semaphore one after
\* the other in some order, the goroutine `first` being the first to lock mu
RunWhole(f, order) ==
    /\ Idle
    /\ runNo < MaxRuns
    /\ runNo' = runNo + 1
    /\ force' = f
    /\ \E s \in {RunSetup(cfg, fs, f, order, pkgErrors, toolFail, numCPU)} :
       LET regen == s.toProcess
           started == IF s.starts
                        THEN {i \in DOMAIN regen : ~Skipped(fs, s.pkgMap, regen[i])}
                        ELSE {}
       IN  \E sched \in Orders(started) :
           \E out \in {RunJobs(fs, cfg, regen, sched, now)} :
             LET failing == {i \in started : out.errs[i] # NilErr}
             IN  \E first \in IF failing = {} THEN {0} ELSE failing :
                   LET err == IF failing = {}
                                THEN NilErr
                                ELSE RecordError(NilErr, out.errs[first], regen[first].ImportPath)
                   IN  /\ fs' = out.fs
                       /\ toProcess' = regen
                       /\ pkgMap' = s.pkgMap
                       /\ loaded' = IF s.starts THEN SeedCache(s.pkgMap) ELSE loaded
                       /\ seeded' = IF s.starts THEN s.pkgMap \cap CachePaths ELSE seeded
                       /\ semCap' = s.semCap
                       /\ si' = IF s.starts THEN Len(regen) + 1 ELSE 1
                       /\ firstErr' = err
                       /\ ret' = IF s.starts THEN err ELSE s.early
                       /\ wpc' = [i \in DOMAIN regen |-> IF i \in started THEN "done" ELSE "none"]
                       /\ wk' = [i \in DOMAIN regen |->
                                    IF i \in started THEN out.ks[i] ELSE 1]
                       /\ wgo' = [i \in DOMAIN regen |->
                                     IF i \in started THEN out.wgos[i] ELSE FALSE]
                       /\ werr' = [i \in DOMAIN regen |->
                                      IF i \in started THEN out.errs[i] ELSE NilErr]
                       /\ writers' = out.writers
                       /\ calls' = out.writes
                       /\ reported' = IF failing = {}
                                        THEN <<>>
                                        ELSE <<first>> \o SelectSeq(sched,
                                                 LAMBDA i : i \in failing /\ i # first)
    /\ mpc' = "returned"
    /\ semCount' = 0
    /\ wgCount' = 0
    /\ startFs' = fs
    /\ delta' = changed
    /\ changed' = {}
    /\ UNCHANGED <<callVars, now, cfg, pkgErrors, numCPU, toolFail, cmu, gpc, gpath, gval, gret,
                   gcalls, loadCalls>>

\* ------------------------------------------------------------------------
\* The user after a run
\* ------------------------------------------------------------------------
SourcePaths(fsys) ==
    {p \in DOMAIN fsys : HasSuffix(Base(p), GoExt) /\ ~HasSuffix(Base(p), TraceSuffix)}

\* a source file or the configuration file is saved again
Touch(p) ==
    /\ mpc = "returned"
    /\ now < MaxTime
    /\ p \in SourcePaths(fs) \cup {ConfigPath}
    /\ now' = now + 1
    /\ fs' = PutFile(fs, p, now + 1, fs[p].content)
    /\ changed' = changed \cup {p}
    /\ UNCHANGED <<callVars, cacheVars, cfg, pkgErrors, numCPU, toolFail, mainVars, workerVars,
                   writers, calls, reported, startFs, delta>>

\* time passes
Tick ==
    /\ mpc = "returned"
    /\ now < MaxTime
    /\ now' = now + 1
    /\ UNCHANGED <<callVars, cacheVars, fs, cfg, pkgErrors, numCPU, toolFail, mainVars, workerVars, obsVars>>

\* ------------------------------------------------------------------------
\* Initial states and specifications
\* ------------------------------------------------------------------------
RecursivePattern == ModPath \o RecursiveSuffix

NilPackageConfig == PackageConfig(NoOutput, EmptyMap)

\* interfaces: I: decorator-name: T
OverrideConfig == PackageConfig(NoOutput, ("I" :> InterfaceConfig(FALSE, <<"T">>, NoName)))

ConfigOf(packages) ==
    [Output |-> DefaultOutput, NoGenerate |-> FALSE, Exclude |-> {}, Packages |-> packages]

\* packages: {m/...: }
CfgRecursive == ConfigOf(RecursivePattern :> NilPackageConfig)

\* packages: {m/a/...: , m/a: {interfaces: {I: {decorator-name: T}}}}
CfgOverlap == ConfigOf((PathA \o RecursiveSuffix :> NilPackageConfig) @@ (PathA :> OverrideConfig))

\* packages: {m/...: , m/a: {interfaces: {I: {decorator-name: T}}}}
CfgOverlapAll == ConfigOf((RecursivePattern :> NilPackageConfig) @@ (PathA :> OverrideConfig))

\* packages: {m/b: }
CfgSingle == ConfigOf(PathB :> NilPackageConfig)

File(mtime, content) == [mtime |-> mtime, content |-> content]

\* a checkout of module m without generated files: package a (a.go with
\* interface I, a_test.go) and package b (b.go with interface J)
Checkout(renderI, renderJ) ==
    (GoModPath :> File(1, [module |-> ModPath]))
    @@ (ConfigPath :> File(1, [yaml |-> "ddtrace"]))
    @@ (<<"r", "/", "a", "/", "a", ".", "g", "o">> :>
            File(1, SourceFile(<<Decl("I", TRUE, FALSE, renderI)>>)))
    @@ (<<"r", "/", "a", "/", "a", "_", "t", "e", "s", "t", ".", "g", "o">> :>
            File(1, SourceFile(<<>>)))
    @@ (<<"r", "/", "b", "/", "b", ".", "g", "o">> :>
            File(1, SourceFile(<<Decl("J", TRUE, FALSE, renderJ)>>)))

CacheParked ==
    /\ cmu = [readers |-> {}, writer |-> 0]
    /\ gpc = [g \in Goroutines |-> "idle"]
    /\ gpath = [g \in Goroutines |-> <<>>]
    /\ gval = [g \in Goroutines |-> NoPkg]
    /\ gret = [g \in Goroutines |-> NoRet]
    /\ gcalls = [g \in Goroutines |-> MaxCalls]
    /\ loadCalls = [p \in CachePaths |-> 0]
    /\ seeded = {}

RunParked ==
    /\ runNo = 0
    /\ force = FALSE
    /\ mpc = "idle"
    /\ toProcess = <<>>
    /\ pkgMap = {}
    /\ si = 1
    /\ semCap = 0
    /\ semCount = 0
    /\ wgCount = 0
    /\ firstErr = NilErr
    /\ ret = NilErr
    /\ wpc = <<>>
    /\ wk = <<>>
    /\ wgo = <<>>
    /\ werr = <<>>
    /\ writers = EmptyMap
    /\ calls = 0
    /\ reported = <<>>
    /\ startFs = EmptyMap
    /\ delta = {}
    /\ changed = {}

\* no function call is in progress and none has returned
NoInput == <<>>
NoResult == [fn |-> "none"]

NilFunc == "nil"

TracingParked ==
    /\ globalContextDecorator = NilFunc
    /\ globalSpanOpts = <<>>
    /\ tracingConfigs = {}
    /\ span = [by |-> "none", finished |-> TRUE]

CallParked ==
    /\ input = NoInput
    /\ result = NoResult
    /\ TracingParked

EnvParked ==
    /\ fs = Checkout("ok", "ok")
    /\ now = 1
    /\ cfg = CfgRecursive
    /\ pkgErrors = {}
    /\ numCPU = 1
    /\ toolFail = "none"

InitCache == CacheInit /\ EnvParked /\ RunParked /\ CallParked

\* the checkout after the command ran in it with configuration c at time t
Generated(fsys, c, t) ==
    LET regen == ResolvePackages(c, fsys, <<RecursivePattern>>)
    IN  RunJobs(fsys, c, regen, [i \in DOMAIN regen |-> i], t).fs

\* the renderings of interfaces I and J: both render, or I renders to invalid
\* Go, or both do
Renderings == {<<"ok", "ok">>, <<"bad", "ok">>, <<"bad", "bad">>}

\* one machine, one configuration, a checkout with or without the files an
\* earlier run generated; the command is about to run once
Init ==
    /\ loaded = [p \in CachePaths |-> NoPkg]
    /\ CacheParked
    /\ \E rs \in Renderings :
          \/ fs = Checkout(rs[1], rs[2])
          \/ fs = Generated(Checkout(rs[1], rs[2]), CfgRecursive, 1)
    /\ now = 2
    /\ cfg \in {CfgSingle, CfgRecursive, CfgOverlapAll}
    /\ pkgErrors = {}
    /\ numCPU \in 1..MaxCPU
    /\ toolFail = "none"
    /\ RunParked
    /\ CallParked

\* one call of runWithConfig
FirstRun(f, order) == runNo = 0 /\ RunStart(f, order)

Next ==
    \/ \E f \in BOOLEAN, order \in Orders(DOMAIN cfg.Packages) : FirstRun(f, order)
    \/ Spawn
    \/ \E i \in Workers : Acquire(i)
    \/ \E i \in Workers : GenFile(i)
    \/ \E i \in Workers : Report(i)
    \/ \E i \in Workers : Release(i)
    \/ \E i \in Workers : Done(i)
    \/ Return

Spec == Init /\ [][Next]_vars

\* a step of goroutine i outside processPackage
WorkerStep(i) == Acquire(i) \/ Report(i) \/ Release(i) \/ Done(i)

\* goroutine i is inside processPackage
InProcessPackage(i) == wpc[i] \in {"run", "files"}

\* the Go scheduler: the main goroutine runs while it can, and while some
\* worker goroutine can take a step outside processPackage one of them does;
\* every processPackage call terminates, so that again and again no goroutine
\* is inside one
Fairness ==
    /\ WF_vars(Spawn)
    /\ WF_vars(Return)
    /\ WF_vars(\E i \in Workers : WorkerStep(i))
    /\ []<>(\A i \in Workers : ~InProcessPackage(i))

SpecLive == Init /\ [][Next]_vars /\ Fairness

\* the checkout with one more package, m/a/x, that holds a test file only
WithTestOnlyPackage(fsys) ==
    fsys @@ (<<"r", "/", "a", "/", "x", "/", "x", "_", "t", "e", "s", "t", ".", "g", "o">> :>
                File(1, SourceFile(<<>>)))

\* the command is about to run once on a machine where one call of the setup
\* may fail and some packages may load with errors
InitSetup ==
    /\ loaded = [p \in CachePaths |-> NoPkg]
    /\ CacheParked
    /\ \E rs \in Renderings :
          \/ fs = Checkout(rs[1], rs[2])
          \/ fs = WithTestOnlyPackage(Checkout(rs[1], rs[2]))
          \/ fs = Generated(Checkout(rs[1], rs[2]), CfgRecursive, 1)
    /\ now = 2
    /\ cfg \in {CfgRecursive, CfgSingle}
    /\ pkgErrors \in SUBSET CachePaths
    /\ numCPU = MaxCPU
    /\ toolFail \in ToolFailures
    /\ RunParked
    /\ CallParked

SpecSetup == InitSetup /\ [][Next]_vars

\* a fresh checkout in which the command runs again and again while the user
\* saves files; interface J renders, or the generator fails on it
InitIncr ==
    /\ loaded = [p \in CachePaths |-> NoPkg]
    /\ CacheParked
    /\ \/ fs \in {Checkout("ok", "ok"), Checkout("ok", "err")} /\ cfg = CfgRecursive
       \/ fs = Checkout("ok", "ok") /\ cfg = CfgOverlap
    /\ now = 1
    /\ pkgErrors = {}
    /\ numCPU = MaxCPU
    /\ toolFail = "none"
    /\ RunParked
    /\ CallParked

NextIncr ==
    \/ \E f \in BOOLEAN, order \in Orders(DOMAIN cfg.Packages) : RunWhole(f, order)
    \/ \E p \in DOMAIN fs : Touch(p)
    \/ Tick

SpecIncr == InitIncr /\ [][NextIncr]_vars

\* the checkout with a second source file in package a, a/b.go with interface K
WithSecondFile(fsys, renderK) ==
    fsys @@ (<<"r", "/", "a", "/", "b", ".", "g", "o">> :>
                File(1, SourceFile(<<Decl("K", TRUE, FALSE, renderK)>>)))

\* a fresh checkout whose package a has two source files; the command runs
\* again and again while the user saves files; the interface of the first
\* file of a may fail to render, and the second file of a, or the file of b,
\* may render to text that imports.Process rejects
InitRetry ==
    /\ loaded = [p \in CachePaths |-> NoPkg]
    /\ CacheParked
    /\ \E renderI \in {"ok", "err"}, renderK, renderJ \in {"ok", "bad"} :
          fs = WithSecondFile(Checkout(renderI, renderJ), renderK)
    /\ now = 1
    /\ cfg = CfgRecursive
    /\ pkgErrors = {}
    /\ numCPU = MaxCPU
    /\ toolFail = "none"
    /\ RunParked
    /\ CallParked

SpecRetry == InitRetry /\ [][NextIncr]_vars

SpecCache == InitCache /\ [][CacheNext]_vars

\* ------------------------------------------------------------------------
\* One package, scanned and generated (ScanPackage, generateFileDecorators)
\* ------------------------------------------------------------------------
\* packages: {m/a: }
CfgPackageA == ConfigOf(PathA :> NilPackageConfig)

\* comments: the directive followed by a blank, the directive followed by a
\* word, an ordinary comment
DirectiveBlank == ignoreDirective \o <<" ">>
DirectiveWord == ignoreDirective \o <<" ", "x">>
OtherComment == <<"/", "/", " ", "x">>

Interface(name, doc) == TypeSpec(name, "interface", doc, "ok")

\* the files considered for a file that declares the types n1 and n2
SampleFiles(n1, n2) ==
    { SourceFile(<<>>),
      SourceFile(<<GenDecl("func", NilDoc, <<>>), Decl(n1, FALSE, FALSE, "ok")>>),
      SourceFile(<<Decl(n1, TRUE, FALSE, "ok")>>),
      SourceFile(<<Decl(n2, TRUE, FALSE, "ok"), Decl(n1, TRUE, FALSE, "ok")>>),
      SourceFile(<<GenDecl("type", <<OtherComment, ignoreDirective>>,
                           <<Interface(n1, NilDoc), Interface(n2, NilDoc)>>)>>),
      SourceFile(<<GenDecl("type", NilDoc,
                           <<Interface(n1, <<DirectiveBlank>>), Interface(n2, NilDoc)>>)>>),
      SourceFile(<<GenDecl("type", <<DirectiveWord>>, <<Interface(n1, NilDoc)>>)>>),
      SourceFile(<<Decl(n1, TRUE, TRUE, "ok"), Decl(n2, TRUE, FALSE, "ok")>>) }

DirA == PkgDir(PathA)

\* the file names of package a and the types each file declares
PackageFileNames ==
    { <<"a", ".", "g", "o">>, <<"b", ".", "g", "o">>,
      <<"a", "_", "t", "e", "s", "t", ".", "g", "o">>,
      <<"b", "_", "t", "r", "a", "c", "e", ".", "g", "o">> }

TypeNames(fileName) ==
    IF fileName = <<"a", ".", "g", "o">> THEN <<"I", "J">>
    ELSE IF fileName = <<"b", ".", "g", "o">> THEN <<"P", "Q">>
    ELSE IF HasSuffix(fileName, TestSuffix) THEN <<"X", "Y">>
    ELSE <<"U", "V">>

\* the module with go.mod, the configuration file and the given files of
\* package a
ModuleWith(files) ==
    [path \in {GoModPath, ConfigPath} \cup {JoinPath(DirA, n) : n \in DOMAIN files} |->
        IF path = GoModPath THEN File(1, [module |-> ModPath])
        ELSE IF path = ConfigPath THEN File(1, [yaml |-> "ddtrace"])
        ELSE File(1, files[Base(path)])]

\* package a with at most MaxFiles files
SamplePackages ==
    UNION { [names -> UNION {SampleFiles(TypeNames(n)[1], TypeNames(n)[2]) : n \in names}] :
              names \in {ns \in SUBSET PackageFileNames : Cardinality(ns) <= MaxFiles} }

\* a file with at most MaxInterfaces type declarations, each an interface
\* the generator renders, fails on or renders to invalid Go, an interface
\* with the directive, or a struct
InterfaceNames == <<"I", "J", "K", "L", "N">>

DeclKinds == {"ok", "err", "bad", "ignored", "struct"}

DeclOfKind(name, kind) ==
    IF kind = "struct" THEN Decl(name, FALSE, FALSE, "ok")
    ELSE IF kind = "ignored" THEN Decl(name, TRUE, TRUE, "ok")
    ELSE Decl(name, TRUE, FALSE, kind)

FilesOfKinds ==
    UNION {{SourceFile([i \in 1..n |-> DeclOfKind(InterfaceNames[i], kinds[i])]) :
              kinds \in [1..n -> DeclKinds]} : n \in 0..MaxInterfaces}

AGo == <<"a", ".", "g", "o">>

\* package a as the configuration resolves it
PackageA == ResolvedPackage(PathA, mergePackageConfig(CfgPackageA, CfgPackageA.Packages[PathA]))

\* the output file an earlier run left when a.go declared interface I alone
EarlierOutput ==
    LET fg == [FileName |-> AGo, Interfaces |-> <<[Name |-> "I"]>>]
        outFilePath == OutFilePath(PackageA, fg)
    IN  [path |-> outFilePath,
         content |-> RenderFile(SourceFile(<<Decl("I", TRUE, FALSE, "ok")>>), fg, outFilePath,
                                TRUE, EmptyMap).processed]

InitPackage ==
    /\ loaded = [p \in CachePaths |-> NoPkg]
    /\ CacheParked
    /\ \/ \E files \in SamplePackages :
             /\ \A n \in DOMAIN files :
                   files[n] \in SampleFiles(TypeNames(n)[1], TypeNames(n)[2])
             /\ fs = ModuleWith(files)
       \/ \E f \in FilesOfKinds :
             \/ fs = ModuleWith(AGo :> f)
             \/ fs = PutFile(ModuleWith(AGo :> f), EarlierOutput.path, 1, EarlierOutput.content)
    /\ now = 2
    /\ cfg = CfgPackageA
    /\ pkgErrors = {}
    /\ numCPU = 1
    /\ toolFail = "none"
    /\ RunParked
    /\ CallParked

\* one call of ScanPackage on the parsed package a, whose loop over p.Files
\* visits the files in the given order
ScanCall(order) ==
    /\ result = NoResult
    /\ result' = [fn |-> "ScanPackage", order |-> order,
                  ret |-> ScanPackage(AST(fs, DirA), order)]
    /\ UNCHANGED <<cacheVars, runVars, input, traceVars>>

\* one call of generateFileDecorators by processPackage, for file group k of
\* package a
GenCall(k) ==
    /\ result = NoResult
    /\ k \in DOMAIN FileGroups(fs, PackageA)
    /\ \E g \in {GenStep(fs, cfg, PackageA, FileGroups(fs, PackageA), k, FALSE, now)} :
          /\ fs' = g.fs
          /\ result' = [fn |-> "generateFileDecorators",
                        fg |-> FileGroups(fs, PackageA)[k],
                        outFilePath |-> OutFilePath(PackageA, FileGroups(fs, PackageA)[k]),
                        parts |-> g.parts,
                        err |-> g.err,
                        writes |-> g.writes,
                        touched |-> g.touched]
    /\ UNCHANGED <<cacheVars, now, cfg, pkgErrors, numCPU, toolFail, mainVars, workerVars,
                   obsVars, input, traceVars>>

NextPackage ==
    \/ \E order \in Orders(DOMAIN AST(fs, DirA).Files) : ScanCall(order)
    \/ \E k \in 1..MaxFiles : GenCall(k)

SpecPackage == InitPackage /\ [][NextPackage]_vars

\* ------------------------------------------------------------------------
\* Method sets (generator: mergeMethods, processInterface)
\* ------------------------------------------------------------------------
\* the fields of an ast.InterfaceType: a named method with a function type,
\* or an embedded interface given by its identifier
FuncField(name, type) == [kind |-> "func", Name |-> name, Type |-> type]
IdentField(name) == [kind |-> "ident", Name |-> name, Type |-> NoName]

InterfaceType(name, fields) == [Name |-> name, Methods |-> fields]

\* a merge in which the embedded methods overwrite the methods held so far
mergeMethodsInnerWins(methods, embeddedMethods) ==
    [n \in DOMAIN methods \cup DOMAIN embeddedMethods |->
        IF n \in DOMAIN embeddedMethods THEN embeddedMethods[n] ELSE methods[n]]

\* mergeMethods(methods, embeddedMethods): both method lists, the entry of
\* methods kept on a collision
mergeMethods(methods, embeddedMethods) ==
    [n \in DOMAIN methods \cup DOMAIN embeddedMethods |->
        IF n \in DOMAIN methods THEN methods[n] ELSE embeddedMethods[n]]

\* the func-typed fields: one entry each, the signature taken verbatim
DirectMethods(it) ==
    [n \in {it.Methods[i].Name : i \in {j \in DOMAIN it.Methods : it.Methods[j].kind = "func"}} |->
        LET i == CHOOSE j \in DOMAIN it.Methods :
                    it.Methods[j].kind = "func" /\ it.Methods[j].Name = n
        IN  Method(n, <<Param("x", it.Methods[i].Type)>>, <<>>)]

EmbeddedRefs(it) == SelectSeq(it.Methods, LAMBDA f : f.kind = "ident")

\* the declaration of the named sibling type
TypeNamed(types, name) == types[CHOOSE i \in DOMAIN types : types[i].Name = name]

RECURSIVE processInterface(_, _)
RECURSIVE EmbeddedMethodsLastWins(_, _)
RECURSIVE EmbeddedMethods(_, _)

\* the embedded sets inserted in declaration order, a later one overwriting
EmbeddedMethodsLastWins(types, refs) ==
    IF refs = <<>>
      THEN EmptyMap
      ELSE mergeMethods(EmbeddedMethodsLastWins(types, Tail(refs)),
                        processInterface(types, TypeNamed(types, Head(refs).Name)))

\* the embedded sets inserted in declaration order, a later one not
\* overwriting an earlier one
EmbeddedMethods(types, refs) ==
    IF refs = <<>>
      THEN EmptyMap
      ELSE mergeMethods(processInterface(types, TypeNamed(types, Head(refs).Name)),
                        EmbeddedMethods(types, Tail(refs)))

\* processInterface: the embedded sets, overlaid with the direct methods
processInterface(types, it) ==
    mergeMethods(DirectMethods(it), EmbeddedMethods(types, EmbeddedRefs(it)))

\* the colliding method name, and the fields interface k can hold: method M
\* with a signature of its own, or an interface declared after it
CollidingName == "M"

FieldsOf(k) ==
    {FuncField(CollidingName, InterfaceNames[k])}
    \cup {IdentField(InterfaceNames[j]) : j \in (k + 1)..MaxLevels}

FieldListsOf(k) ==
    UNION {{fl \in [1..n -> FieldsOf(k)] : \A i, j \in 1..n : i # j => fl[i] # fl[j]} :
              n \in 0..MaxFields}

\* the interface declarations of one package, none embedding itself
\* directly or through others
RECURSIVE TypesFrom(_)
TypesFrom(k) ==
    IF k > MaxLevels
      THEN {<<>>}
      ELSE {<<InterfaceType(InterfaceNames[k], fl)>> \o rest :
               fl \in FieldListsOf(k), rest \in TypesFrom(k + 1)}

SampleTypes == TypesFrom(1)

InitMethods ==
    /\ loaded = [p \in CachePaths |-> NoPkg]
    /\ CacheParked
    /\ fs = ModuleWith(EmptyMap)
    /\ now = 2
    /\ cfg = CfgPackageA
    /\ pkgErrors = {}
    /\ numCPU = 1
    /\ toolFail = "none"
    /\ RunParked
    /\ input \in SampleTypes
    /\ result = NoResult
    /\ TracingParked

\* one call of processInterface on interface k of the package
ProcessCall(k) ==
    /\ result = NoResult
    /\ result' = [fn |-> "processInterface", root |-> k,
                  ret |-> processInterface(input, input[k])]
    /\ UNCHANGED <<cacheVars, runVars, input, traceVars>>

NextMethods == \E k \in 1..MaxLevels : ProcessCall(k)

SpecMethods == InitMethods /\ [][NextMethods]_vars

\* ------------------------------------------------------------------------
\* Embedding resolved call by call (processInterface on any embedding graph)
\* ------------------------------------------------------------------------
\* the lists of embedded interfaces one interface can hold: at most two of the
\* interfaces of the package, itself included, in the order of their names
OrderedEmbedLists ==
    {<<>>}
    \cup {<<IdentField(InterfaceNames[j])>> : j \in 1..MaxLevels}
    \cup UNION {{<<IdentField(InterfaceNames[i]), IdentField(InterfaceNames[j])>> :
                    j \in (i + 1)..MaxLevels} : i \in 1..MaxLevels}

\* the interface declarations of one package, with any embedding between them
RECURSIVE AnyTypesFrom(_)
AnyTypesFrom(k) ==
    IF k > MaxLevels
      THEN {<<>>}
      ELSE {<<InterfaceType(InterfaceNames[k], fl)>> \o rest :
               fl \in OrderedEmbedLists, rest \in AnyTypesFrom(k + 1)}

\* the calls of processInterface the goroutine stack has room for: more than
\* the resolution of any package without a cycle nests
StackLimit == MaxLevels + 1

\* a call of processInterface in progress: the interface and the embedded
\* field it looks at next
Frame(name) == [Name |-> name, next |-> 1]

InitEmbed ==
    /\ loaded = [p \in CachePaths |-> NoPkg]
    /\ CacheParked
    /\ fs = ModuleWith(EmptyMap)
    /\ now = 2
    /\ cfg = CfgPackageA
    /\ pkgErrors = {}
    /\ numCPU = 1
    /\ toolFail = "none"
    /\ RunParked
    /\ input \in AnyTypesFrom(1)
    /\ result = [fn |-> "processInterface", status |-> "running",
                 stack |-> <<Frame(InterfaceNames[1])>>]
    /\ TracingParked

Resolving == result.fn = "processInterface" /\ result.status = "running"

TopFrame == result.stack[Len(result.stack)]

TopRefs == EmbeddedRefs(TypeNamed(input, TopFrame.Name))

\* the call on top looks at its next embedded field and calls
\* processInterface for the interface it names
EmbedCall ==
    /\ Resolving
    /\ TopFrame.next <= Len(TopRefs)
    /\ Len(result.stack) < StackLimit
    /\ result' = [result EXCEPT
                    !.stack = Append([result.stack EXCEPT ![Len(result.stack)].next =
                                                              TopFrame.next + 1],
                                     Frame(TopRefs[TopFrame.next].Name))]
    /\ UNCHANGED <<cacheVars, runVars, input, traceVars>>

\* the same, with no room left on the stack: the Go runtime ends the process
\* (fatal error: stack overflow); no error value is returned
EmbedOverflow ==
    /\ Resolving
    /\ TopFrame.next <= Len(TopRefs)
    /\ Len(result.stack) = StackLimit
    /\ result' = [result EXCEPT !.status = "stack overflow"]
    /\ UNCHANGED <<cacheVars, runVars, input, traceVars>>

\* the call on top has merged all its embedded fields and returns
EmbedReturn ==
    /\ Resolving
    /\ TopFrame.next > Len(TopRefs)
    /\ result' = [result EXCEPT
                    !.stack = SubSeq(result.stack, 1, Len(result.stack) - 1),
                    !.status = IF Len(result.stack) = 1 THEN "returned" ELSE "running"]
    /\ UNCHANGED <<cacheVars, runVars, input, traceVars>>

NextEmbed == EmbedCall \/ EmbedOverflow \/ EmbedReturn

SpecEmbed == InitEmbed /\ [][NextEmbed]_vars

\* ------------------------------------------------------------------------
\* The body template executed (datadogTemplate)
\* ------------------------------------------------------------------------
MethodNames == <<"A", "B", "C", "D">>

\* parameter lists: none, a leading context, a context after another
\* parameter, no context
SampleParams ==
    { <<>>,
      <<Param("ctx", ContextType)>>,
      <<Param("ctx", ContextType), Param("id", "string")>>,
      <<Param("id", "string"), Param("ctx", ContextType)>>,
      <<Param("id", "string")>> }

SampleResults == {<<>>, <<Param("err", ErrorType)>>}

SampleMethodLists ==
    UNION {{[i \in 1..n |-> Method(MethodNames[i], ps[i], rs[i])] :
              ps \in [1..n -> SampleParams], rs \in [1..n -> SampleResults]} :
           n \in 0..MaxMethods}

\* .Vars of the template: decorator-name and span-prefix, set or not
SampleVars ==
    {[DecoratorName |-> d, SpanNamePrefix |-> p] : d \in {NoName, <<"T">>}, p \in {NoName, <<"P">>}}

InitTemplate ==
    /\ loaded = [p \in CachePaths |-> NoPkg]
    /\ CacheParked
    /\ fs = ModuleWith(EmptyMap)
    /\ now = 2
    /\ cfg = CfgPackageA
    /\ pkgErrors = {}
    /\ numCPU = 1
    /\ toolFail = "none"
    /\ RunParked
    /\ input \in {[iface |-> [Name |-> "I", Methods |-> ms], tvars |-> tv] :
                    ms \in SampleMethodLists, tv \in SampleVars}
    /\ result = NoResult
    /\ TracingParked

\* the body template executed for the interface
ExecuteTemplate ==
    /\ result = NoResult
    /\ result' = [fn |-> "datadogTemplate", text |-> datadogTemplate(input.iface, input.tvars)]
    /\ UNCHANGED <<cacheVars, runVars, input, traceVars>>

NextTemplate == ExecuteTemplate

SpecTemplate == InitTemplate /\ [][NextTemplate]_vars

\* ------------------------------------------------------------------------
\* Package tracing (globals, TracingConfig, StartSpan, FinishSpan)
\* ------------------------------------------------------------------------
NilError == "nil"

\* one call made on the tracer, on a span or on a decorator function
Call(fn, args) == [fn |-> fn, args |-> args]

\* the zero TracingConfig
ZeroTracingConfig == [spanDecorator |-> NilFunc, contextDecorator |-> NilFunc, spanOpts |-> <<>>]

\* the TracingOption values, and one of them applied to a TracingConfig
WithSpanDecorator(f) == [option |-> "WithSpanDecorator", arg |-> <<f>>]
WithContextDecorator(f) == [option |-> "WithContextDecorator", arg |-> <<f>>]
WithSpanOptions(opts) == [option |-> "WithSpanOptions", arg |-> opts]

ApplyOption(c, opt) ==
    IF opt.option = "WithSpanDecorator" THEN [c EXCEPT !.spanDecorator = opt.arg[1]]
    ELSE IF opt.option = "WithContextDecorator" THEN [c EXCEPT !.contextDecorator = opt.arg[1]]
    ELSE [c EXCEPT !.spanOpts = c.spanOpts \o opt.arg]

RECURSIVE ApplyOptions(_, _)
ApplyOptions(c, opts) ==
    IF opts = <<>> THEN c ELSE ApplyOptions(ApplyOption(c, Head(opts)), Tail(opts))

\* a constructor that puts the global options after the instance's
NewTracingConfigGlobalLast(opts, globalOpts) ==
    [ApplyOptions(ZeroTracingConfig, opts) EXCEPT !.spanOpts = @ \o globalOpts]

\* NewTracingConfig: the options applied, then the global span options
\* prepended
NewTracingConfig(opts, globalOpts) ==
    [ApplyOptions(ZeroTracingConfig, opts) EXCEPT !.spanOpts = globalOpts \o @]

\* a StartSpan that calls the instance's context decorator first
TracingConfigStartSpanInstanceFirst(c, globalDecorator) ==
    <<Call("StartSpanFromContext", c.spanOpts)>>
    \o (IF c.contextDecorator # NilFunc THEN <<Call(c.contextDecorator, <<"span">>)>> ELSE <<>>)
    \o (IF globalDecorator # NilFunc THEN <<Call(globalDecorator, <<"span">>)>> ELSE <<>>)

\* (*TracingConfig).StartSpan: the calls it makes, in order
TracingConfigStartSpan(c, globalDecorator) ==
    <<Call("StartSpanFromContext", c.spanOpts)>>
    \o (IF globalDecorator # NilFunc THEN <<Call(globalDecorator, <<"span">>)>> ELSE <<>>)
    \o (IF c.contextDecorator # NilFunc THEN <<Call(c.contextDecorator, <<"span">>)>> ELSE <<>>)

\* the SpanOption values of the package-level StartSpan
WithTracerOptions(opts) == [option |-> "WithTracerOptions", arg |-> opts]

RECURSIVE TracerOpts(_)
TracerOpts(opts) ==
    IF opts = <<>> THEN <<>>
    ELSE (IF Head(opts).option = "WithTracerOptions" THEN Head(opts).arg ELSE <<>>)
         \o TracerOpts(Tail(opts))

\* the package-level StartSpan: the calls it makes, in order
StartSpan(opts, globalOpts, globalDecorator) ==
    <<Call("StartSpanFromContext", globalOpts \o TracerOpts(opts))>>
    \o (IF globalDecorator # NilFunc THEN <<Call(globalDecorator, <<"span">>)>> ELSE <<>>)

\* SetError: the three error tags, for a non-nil error
SetError(err) ==
    IF err # NilError
      THEN <<Call("SetTag", <<"error", err>>), Call("SetTag", <<"error.msg", err>>),
             Call("SetTag", <<"error.type", "error">>)>>
      ELSE <<>>

\* a FinishSpan that tags the error whether or not a decorator is set
TracingConfigFinishSpanAlwaysTags(c, err, params, results) ==
    (IF c.spanDecorator # NilFunc
       THEN <<Call(c.spanDecorator, <<params, results>>)>>
       ELSE <<>>)
    \o SetError(err)
    \o <<Call("Finish", <<>>)>>

\* (*TracingConfig).FinishSpan: the calls it makes, in order
TracingConfigFinishSpan(c, err, params, results) ==
    (IF c.spanDecorator # NilFunc
       THEN <<Call(c.spanDecorator, <<params, results>>)>>
       ELSE IF err # NilError THEN SetError(err) ELSE <<>>)
    \o <<Call("Finish", <<>>)>>

\* the package-level FinishSpan
FinishSpan(err) ==
    (IF err # NilError THEN SetError(err) ELSE <<>>) \o <<Call("Finish", <<>>)>>

\* what the application passes: global options, decorator functions, the
\* option lists of NewTracingConfig and of StartSpan, errors
SampleGlobalOpts == {<<>>, <<"g">>}
SampleGlobalDecorators == {NilFunc, "globalDecorator"}

SampleTracingOptions ==
    { <<>>,
      <<WithSpanOptions(<<"o">>)>>,
      <<WithSpanDecorator("spanDecorator")>>,
      <<WithContextDecorator("contextDecorator")>>,
      <<WithSpanDecorator("spanDecorator"), WithContextDecorator("contextDecorator")>>,
      <<WithContextDecorator("contextDecorator"), WithSpanOptions(<<"o">>), WithSpanOptions(<<"q">>)>> }

SampleSpanOptions == {<<>>, <<WithTracerOptions(<<"t">>)>>}
SampleErrors == {NilError, "boom"}

InitTracing ==
    /\ loaded = [p \in CachePaths |-> NoPkg]
    /\ CacheParked
    /\ fs = ModuleWith(EmptyMap)
    /\ now = 2
    /\ cfg = CfgPackageA
    /\ pkgErrors = {}
    /\ numCPU = 1
    /\ toolFail = "none"
    /\ RunParked
    /\ CallParked

\* SetDefaultSpanOptions(opts...)
SetDefaultSpanOptions(opts) ==
    /\ globalSpanOpts' = opts
    /\ UNCHANGED <<cacheVars, runVars, input, result, globalContextDecorator, tracingConfigs, span>>

\* SetDefaultContextDecorator(f)
SetDefaultContextDecorator(f) ==
    /\ globalContextDecorator' = f
    /\ UNCHANGED <<cacheVars, runVars, input, result, globalSpanOpts, tracingConfigs, span>>

\* a generated constructor: the decorator keeps NewTracingConfig(opts...)
Decorator(opts, globalOpts) ==
    [_cfg |-> NewTracingConfig(opts, globalOpts), opts |-> opts, defaults |-> globalOpts]

NewDecorator(opts) ==
    /\ \/ Cardinality(tracingConfigs) < MaxConfigs
       \/ Decorator(opts, globalSpanOpts) \in tracingConfigs
    /\ tracingConfigs' = tracingConfigs \cup {Decorator(opts, globalSpanOpts)}
    /\ UNCHANGED <<cacheVars, runVars, input, result, globalContextDecorator, globalSpanOpts, span>>

\* a traced call finished and another started: a span lives from its
\* StartSpan to its FinishSpan, one at a time
SpanFree == span.finished

\* a generated wrapper starts: _d._cfg.StartSpan(ctx, name)
DecoratorStartSpan(d) ==
    /\ SpanFree
    /\ span' = [by |-> "TracingConfig", d |-> d, finished |-> FALSE, err |-> NilError,
                own |-> ApplyOptions(ZeroTracingConfig, d.opts).spanOpts,
                defaults |-> globalSpanOpts, decorator |-> globalContextDecorator,
                starts |-> TracingConfigStartSpan(d._cfg, globalContextDecorator),
                finishes |-> <<>>]
    /\ UNCHANGED <<cacheVars, runVars, input, result, globalContextDecorator, globalSpanOpts,
                   tracingConfigs>>

\* hand-written code starts a span: tracing.StartSpan(ctx, opts...)
ManualStartSpan(opts) ==
    /\ SpanFree
    /\ span' = [by |-> "StartSpan", d |-> Decorator(<<>>, <<>>), finished |-> FALSE, err |-> NilError,
                own |-> TracerOpts(opts),
                defaults |-> globalSpanOpts, decorator |-> globalContextDecorator,
                starts |-> StartSpan(opts, globalSpanOpts, globalContextDecorator),
                finishes |-> <<>>]
    /\ UNCHANGED <<cacheVars, runVars, input, result, globalContextDecorator, globalSpanOpts,
                   tracingConfigs>>

\* the deferred call of a generated wrapper: _d._cfg.FinishSpan(span, err, params, results)
DecoratorFinishSpan(err) ==
    /\ span.by = "TracingConfig"
    /\ ~span.finished
    /\ span' = [span EXCEPT !.finished = TRUE, !.err = err,
                            !.finishes = TracingConfigFinishSpan(span.d._cfg, err, "params", "results")]
    /\ UNCHANGED <<cacheVars, runVars, input, result, globalContextDecorator, globalSpanOpts,
                   tracingConfigs>>

\* the deferred call of hand-written code: tracing.FinishSpan(span, err)
ManualFinishSpan(err) ==
    /\ span.by = "StartSpan"
    /\ ~span.finished
    /\ span' = [span EXCEPT !.finished = TRUE, !.err = err, !.finishes = FinishSpan(err)]
    /\ UNCHANGED <<cacheVars, runVars, input, result, globalContextDecorator, globalSpanOpts,
                   tracingConfigs>>

NextTracing ==
    \/ \E opts \in SampleGlobalOpts : SetDefaultSpanOptions(opts)
    \/ \E f \in SampleGlobalDecorators : SetDefaultContextDecorator(f)
    \/ \E opts \in SampleTracingOptions : NewDecorator(opts)
    \/ \E d \in tracingConfigs : DecoratorStartSpan(d)
    \/ \E opts \in SampleSpanOptions : ManualStartSpan(opts)
    \/ \E err \in SampleErrors : DecoratorFinishSpan(err)
    \/ \E err \in SampleErrors : ManualFinishSpan(err)

SpecTracing == InitTracing /\ [][NextTracing]_vars

\* ------------------------------------------------------------------------
\* Pattern expansion (ResolvePackages, shouldExclude)
\* ------------------------------------------------------------------------
\* the "/"-separated segments of a path
RECURSIVE SegmentsFrom(_, _)
SegmentsFrom(p, cur) ==
    IF p = <<>> THEN <<cur>>
    ELSE IF Head(p) = "/" THEN <<cur>> \o SegmentsFrom(Tail(p), <<>>)
    ELSE SegmentsFrom(Tail(p), Append(cur, Head(p)))

Segments(p) == SegmentsFrom(p, <<>>)

\* output: x, and interfaces: I: decorator-name: T
OutputX == <<"x">>
PackageOutputX == PackageConfig(OutputX, EmptyMap)

\* the packages maps considered:
\*   {m/...: }   {m/...: {output: x}}   {m/a/...: {output: x}, m/...: }
\*   {m/a/t: {interfaces: ...}, m/...: }   {m/a: }
SamplePackageMaps ==
    { RecursivePattern :> NilPackageConfig,
      RecursivePattern :> PackageOutputX,
      (PathA \o RecursiveSuffix :> PackageOutputX) @@ (RecursivePattern :> NilPackageConfig),
      (PathA \o Slash \o DefaultOutput :> OverrideConfig) @@ (RecursivePattern :> NilPackageConfig),
      PathA :> NilPackageConfig }

ExcludeEntries == {<<"m">>, <<"b">>, <<"t">>, <<"x">>}

SampleConfigs ==
    { [Output |-> output, NoGenerate |-> FALSE, Exclude |-> exclude, Packages |-> packages] :
        output \in {DefaultOutput, OutputX}, exclude \in SUBSET ExcludeEntries,
        packages \in SamplePackageMaps }

\* a module with one Go file in each of the given directories
ModuleOfDirs(dirs) ==
    [path \in {GoModPath, ConfigPath} \cup {JoinPath(d, AGo) : d \in dirs} |->
        IF path = GoModPath THEN File(1, [module |-> ModPath])
        ELSE IF path = ConfigPath THEN File(1, [yaml |-> "ddtrace"])
        ELSE File(1, SourceFile(<<>>))]

AllModuleDirs == {ModuleDirs[i] : i \in DOMAIN ModuleDirs}

\* import paths handed to shouldExclude: the packages of the module, the
\* module path alone, and paths of other modules
SampleImportPaths ==
    {ModPath \o TrimPrefix(d, RootDir) : d \in AllModuleDirs}
    \cup {ModPath, <<"b", "/", "m">>, <<"m", "b", "/", "a">>, <<"t", "/", "a">>}

InitResolve ==
    /\ loaded = [p \in CachePaths |-> NoPkg]
    /\ CacheParked
    /\ fs \in {ModuleOfDirs(AllModuleDirs), ModuleOfDirs({PkgDir(PathA), PkgDir(PathB)})}
    /\ now = 2
    /\ cfg \in SampleConfigs
    /\ pkgErrors = {}
    /\ numCPU = 1
    /\ toolFail = "none"
    /\ RunParked
    /\ CallParked

\* one call of c.ResolvePackages, whose loop over c.Packages visits the
\* patterns in the given order
ResolveCall(order) ==
    /\ result = NoResult
    /\ result' = [fn |-> "ResolvePackages", order |-> order,
                  ret |-> ResolvePackages(cfg, fs, order)]
    /\ UNCHANGED <<cacheVars, runVars, input, traceVars>>

\* one call of c.shouldExclude(importPath)
ExcludeCall(importPath) ==
    /\ result = NoResult
    /\ result' = [fn |-> "shouldExclude", importPath |-> importPath,
                  ret |-> shouldExclude(cfg, importPath)]
    /\ UNCHANGED <<cacheVars, runVars, input, traceVars>>

NextResolve ==
    \/ \E order \in Orders(DOMAIN cfg.Packages) : ResolveCall(order)
    \/ \E importPath \in SampleImportPaths : ExcludeCall(importPath)

SpecResolve == InitResolve /\ [][NextResolve]_vars

\* ------------------------------------------------------------------------
\* Properties
\* ------------------------------------------------------------------------
\* C1: PackageCache.load performs at most one underlying scanner.Load per
\* import path during one run, for any number of concurrent callers.
LoadAtMostOncePerPath == \A p \in CachePaths : loadCalls[p] <= 1

\* the goroutines between sem <- struct{}{} and the deferred <-sem
HoldingSlot == {i \in Workers : wpc[i] \in {"run", "files", "report", "release"}}

Min(a, b) == IF a < b THEN a ELSE b

\* C2: at every moment the number of goroutines executing processPackage
\* (holding a semaphore slot) is at most min(runtime.NumCPU(), number of
\* packages in the regeneration set).
AtMostMinWorkers == Cardinality(HoldingSlot) <= Min(numCPU, Len(toProcess))

\* every slot is taken, there are more packages than CPUs, a goroutine waits
WorkersAtCapacity ==
    /\ Cardinality(HoldingSlot) = numCPU
    /\ numCPU < Len(toProcess)
    /\ \E i \in Workers : wpc[i] = "start"

\* the run got as far as its goroutines and returned
WorkersReturned == mpc = "returned" /\ semCap > 0

\* C3: a failure of processPackage for one package never prevents or cancels
\* processPackage for another package: when runWithConfig returns, every
\* goroutine that was started has run processPackage to its end (through all
\* file groups when it did not fail) and has finished.
AllWorkersFinishBeforeReturn ==
    WorkersReturned =>
        \A i \in Workers :
            IF Skipped(startFs, pkgMap, toProcess[i])
              THEN wpc[i] = "none"
              ELSE /\ wpc[i] = "done"
                   /\ werr[i] = NilErr => wk[i] > Len(FileGroups(startFs, toProcess[i]))

\* a run has returned in which one package failed and another one, processed
\* to its end, wrote its output
FailureBesideSuccess ==
    /\ WorkersReturned
    /\ \E i, j \in Workers :
          /\ werr[i] # NilErr
          /\ werr[j] = NilErr
          /\ wpc[j] = "done"
          /\ \E p \in DOMAIN writers : j \in writers[p]

\* C4: runWithConfig returns nil if and only if no processPackage call of the
\* run returned an error; otherwise it returns the error of the package whose
\* failure was recorded first, wrapped with that package's import path, and no
\* later failure overwrites the recorded error.
FirstErrorReturned ==
    /\ [](WorkersReturned =>
            /\ ret = NilErr <=> \A i \in Workers : werr[i] = NilErr
            /\ reported # <<>> =>
                  ret = [msg |-> "failed to generate for package",
                         arg |-> toProcess[Head(reported)].ImportPath,
                         cause |-> werr[Head(reported)].msg])
    /\ [][firstErr # NilErr /\ runNo' = runNo => firstErr' = firstErr]_vars

\* two packages with different import paths failed, the one later in
\* toProcess first, and the run returned
TwoFailuresReturned ==
    /\ WorkersReturned
    /\ Len(reported) = 2
    /\ reported[1] > reported[2]
    /\ toProcess[reported[1]].ImportPath # toProcess[reported[2]].ImportPath

\* C5: in one run, no output file path is written or touched by two different
\* worker goroutines.
OneWorkerPerOutput == \A p \in DOMAIN writers : Cardinality(writers[p]) <= 1

\* the bytes generateFileDecorators has rendered for the file group goroutine
\* i is at, and the output path they go to
RenderedBy(i) ==
    LET rp == toProcess[i]
        fg == FileGroups(fs, rp)[wk[i]]
        path == OutFilePath(rp, fg)
        render == RenderFile(fs[JoinPath(PkgDir(rp.ImportPath), fg.FileName)].content, fg, path,
                             ~cfg.NoGenerate /\ ~wgo[i], rp.Config.Interfaces)
    IN  [path |-> path, bytes |-> render.processed, ok |-> render.generatedAny /\ ~render.err]

\* C10: in generateFileDecorators, when the rendered and normalized bytes equal
\* the bytes of the existing output file, WriteFile is not called, the file's
\* content is unchanged and its modification time is set to the current time;
\* when they differ or no file exists, WriteFile is called exactly once with
\* the new bytes.
WriteOnlyWhenBytesDiffer ==
    [][\A i \in Workers :
          (/\ wpc[i] \in {"run", "files"}
           /\ wk'[i] = wk[i] + 1
           /\ RenderedBy(i).ok)
          => LET path == RenderedBy(i).path
                 bytes == RenderedBy(i).bytes
             IN  IF path \in DOMAIN fs /\ fs[path].content = bytes
                   THEN /\ calls' = calls
                        /\ fs'[path].content = fs[path].content
                        /\ fs'[path].mtime = now
                   ELSE /\ calls' = calls + 1
                        /\ fs'[path].content = bytes]_vars

\* an output file of an earlier run whose bytes were rendered again unchanged:
\* no WriteFile call so far, the old content, and the time of this run
TouchedUnchanged ==
    /\ calls = 0
    /\ \E p \in DOMAIN writers :
          /\ p \in DOMAIN startFs
          /\ startFs[p].mtime < now
          /\ fs[p] = [mtime |-> now, content |-> startFs[p].content]

\* the packages ResolvePackages gives for the configuration, on the files the
\* current run found (the same packages in every iteration order)
CandidatePackages ==
    LET resolved == ResolvePackages(cfg, startFs, CHOOSE o \in Orders(DOMAIN cfg.Packages) : TRUE)
    IN  {resolved[i] : i \in DOMAIN resolved}

\* the generated files of a package, its non-test Go sources, its test files
OutputsOf(fsys, rp) ==
    {p \in DOMAIN fsys :
        /\ DirOf(p) = JoinPath(PkgDir(rp.ImportPath), rp.Config.Output)
        /\ HasSuffix(Base(p), TraceSuffix)}

SourcesOf(fsys, rp) ==
    {p \in DOMAIN fsys :
        /\ DirOf(p) = PkgDir(rp.ImportPath)
        /\ HasSuffix(Base(p), GoExt)
        /\ ~HasSuffix(Base(p), TestSuffix)}

TestsOf(fsys, rp) ==
    {p \in DOMAIN fsys : DirOf(p) = PkgDir(rp.ImportPath) /\ HasSuffix(Base(p), TestSuffix)}

AllOutputs(fsys) == UNION {OutputsOf(fsys, rp) : rp \in CandidatePackages}

Newest(fsys, paths) == MaxOf({fsys[p].mtime : p \in paths})

InRegenerationSet(rp) == \E i \in DOMAIN toProcess : toProcess[i] = rp

\* the last run was not forced
NonForcedRun == runNo >= 1 /\ ~force

\* C6: in a non-forced run, a candidate package inside the module that has at
\* least one generated output file is put in the regeneration set if and only
\* if some non-test .go source file of the package has a modification time
\* strictly after the newest output file's, or the configuration file has.
RegeneratedIffNewerThanOutput ==
    NonForcedRun =>
        \A rp \in CandidatePackages :
            (HasPrefix(rp.ImportPath, ModPath) /\ OutputsOf(startFs, rp) # {}) =>
                (InRegenerationSet(rp) <=>
                    \/ \E p \in SourcesOf(startFs, rp) :
                          startFs[p].mtime > Newest(startFs, OutputsOf(startFs, rp))
                    \/ startFs[ConfigPath].mtime > Newest(startFs, OutputsOf(startFs, rp)))

\* a non-forced run left out a package whose only file newer than its output
\* is a test file
SkippedDespiteNewerTest ==
    /\ NonForcedRun
    /\ \E rp \in CandidatePackages :
          /\ OutputsOf(startFs, rp) # {}
          /\ ~InRegenerationSet(rp)
          /\ \E p \in TestsOf(startFs, rp) :
                startFs[p].mtime > Newest(startFs, OutputsOf(startFs, rp))

\* C7: in a non-forced run, every candidate package that has no prior
\* generated output file is included in the regeneration set, whatever the
\* modification times of the other packages' outputs, of its sources and of
\* the configuration file.
NoOutputAlwaysIncluded ==
    NonForcedRun =>
        \A rp \in CandidatePackages :
            OutputsOf(startFs, rp) = {} => InRegenerationSet(rp)

\* C7, as the code has it: in a non-forced run, a candidate package inside
\* the module that has no generated output file is included in the
\* regeneration set if and only if no candidate package has a generated
\* output file, or one of its non-test .go sources or the configuration file
\* has a modification time strictly after the newest generated output file of
\* all candidate packages, or its source directory cannot be read.
NoOutputIncludedIffNewerThanLastRun ==
    NonForcedRun =>
        \A rp \in CandidatePackages :
            (HasPrefix(rp.ImportPath, ModPath) /\ OutputsOf(startFs, rp) = {}) =>
                (InRegenerationSet(rp) <=>
                    \/ AllOutputs(startFs) = {}
                    \/ \E p \in SourcesOf(startFs, rp) :
                          startFs[p].mtime > Newest(startFs, AllOutputs(startFs))
                    \/ startFs[ConfigPath].mtime > Newest(startFs, AllOutputs(startFs))
                    \/ ~DirExists(startFs, PkgDir(rp.ImportPath)))

\* a non-forced run left out a package without output, next to a package with
\* output
SkippedWithoutOutput ==
    /\ NonForcedRun
    /\ AllOutputs(startFs) # {}
    /\ \E rp \in CandidatePackages : OutputsOf(startFs, rp) = {} /\ ~InRegenerationSet(rp)

\* C8: after a run has produced outputs, if only the configuration file's
\* modification time changes, the next non-forced run puts every package
\* resolved from the configuration in the regeneration set, with or without
\* existing output.
ConfigChangeRegeneratesAll ==
    (runNo >= 2 /\ ~force /\ delta = {ConfigPath} /\ AllOutputs(startFs) # {}) =>
        \A rp \in CandidatePackages : InRegenerationSet(rp)

\* the run after a save of the configuration file alone, with a package that
\* has output and one that has none
ConfigAloneChanged ==
    /\ runNo >= 2 /\ ~force /\ delta = {ConfigPath}
    /\ startFs[ConfigPath].mtime > Newest(startFs, AllOutputs(startFs))
    /\ \E rp \in CandidatePackages : OutputsOf(startFs, rp) # {}
    /\ \E rp \in CandidatePackages : OutputsOf(startFs, rp) = {}

\* C9: running generation twice with no source or configuration change
\* between the runs leaves the content of every output file after the second
\* run identical to its content after the first run.
SecondRunKeepsContent ==
    (runNo >= 2 /\ delta = {}) => OutContents(fs) = OutContents(startFs)

\* C9 for configurations that resolve no package twice
SecondRunKeepsContentNoOverlap ==
    (cfg # CfgOverlap) => SecondRunKeepsContent

\* ------------------------------------------------------------------------
\* Properties of the scanner
\* ------------------------------------------------------------------------
ScanReturned == result.fn = "ScanPackage"

\* the parsed package the call scans
ScannedPackage == AST(fs, DirA)

\* the place of the type named name among the type declarations of file f
SpecIndex(f, name) ==
    CHOOSE i \in DOMAIN typeSpecs(f.decls) : typeSpecs(f.decls)[i].Name = name

\* the interface types of f, with for each whether the directive is a line of
\* its doc comment or of the doc comment of its declaration group
InterfaceSpecs(f) ==
    UNION {{[Name |-> f.decls[d].Specs[i].Name,
             ignored |-> \/ hasIgnoreDirective(f.decls[d].Doc)
                         \/ hasIgnoreDirective(f.decls[d].Specs[i].Doc)] :
               i \in {k \in DOMAIN f.decls[d].Specs : f.decls[d].Specs[k].Type = "interface"}} :
            d \in {k \in DOMAIN f.decls : f.decls[k].Tok = "type"}}

SurvivingNames(f) == {x.Name : x \in {y \in InterfaceSpecs(f) : ~y.ignored}}

IgnoredNames(f) == {x.Name : x \in {y \in InterfaceSpecs(f) : y.ignored}}

\* C11: ScanPackage returns the file groups in lexicographic order of file
\* name and, within a file group, the interfaces in the order of their
\* declarations in the file; the result is the same for every order in which
\* the loop over the map p.Files visits the files.
ScanOrderDeterministic ==
    ScanReturned =>
        LET files == result.ret.files
            p == ScannedPackage
        IN  /\ \A i, j \in DOMAIN files :
                  i < j => LexLess(files[i].FileName, files[j].FileName)
            /\ \A k \in DOMAIN files :
                  LET f == p.Files[JoinPath(DirA, files[k].FileName)]
                      ifs == files[k].Interfaces
                  IN  \A a, b \in DOMAIN ifs :
                         a < b => SpecIndex(f, ifs[a].Name) < SpecIndex(f, ifs[b].Name)
            /\ \A o \in Orders(DOMAIN p.Files) : ScanPackage(p, o) = result.ret

\* two file groups came out of a loop that met the later file first, and one
\* of them lists J before I as the file declares them
ScannedOutOfOrder ==
    /\ ScanReturned
    /\ Len(result.ret.files) = 2
    /\ LexLess(result.order[2], result.order[1])
    /\ \E k \in DOMAIN result.ret.files :
          /\ Len(result.ret.files[k].Interfaces) = 2
          /\ result.ret.files[k].Interfaces[1].Name = "J"
          /\ result.ret.files[k].Interfaces[2].Name = "I"

\* C13: every entry of ScanPackage's result is a file whose name ends neither
\* in _test.go nor in _trace.go and that holds at least one surviving
\* interface declaration; a file without surviving declarations has no entry;
\* the error is nil for every input.
ScanEntriesAreSourceFilesWithInterfaces ==
    ScanReturned =>
        LET files == result.ret.files
            p == ScannedPackage
        IN  /\ result.ret.err = NilErr
            /\ \A k \in DOMAIN files :
                  /\ ~HasSuffix(files[k].FileName, TestSuffix)
                  /\ ~HasSuffix(files[k].FileName, TraceSuffix)
                  /\ JoinPath(DirA, files[k].FileName) \in DOMAIN p.Files
                  /\ files[k].Interfaces # <<>>
                  /\ {files[k].Interfaces[i].Name : i \in DOMAIN files[k].Interfaces}
                       = SurvivingNames(p.Files[JoinPath(DirA, files[k].FileName)])
            /\ \A path \in DOMAIN p.Files :
                  SurvivingNames(p.Files[path]) = {} =>
                      \A k \in DOMAIN files : files[k].FileName # Base(path)

\* a generated file that declares an interface beside a source file whose
\* interfaces are all ignored: the result is empty and the error nil
ScannedNothing ==
    /\ ScanReturned
    /\ \E path \in DOMAIN ScannedPackage.Files :
          /\ HasSuffix(Base(path), TraceSuffix)
          /\ SurvivingNames(ScannedPackage.Files[path]) # {}
    /\ \E path \in DOMAIN ScannedPackage.Files :
          /\ ~SkipFile(Base(path))
          /\ IgnoredNames(ScannedPackage.Files[path]) # {}
          /\ SurvivingNames(ScannedPackage.Files[path]) = {}
    /\ result.ret.files = <<>>

\* ------------------------------------------------------------------------
\* Properties of generateFileDecorators
\* ------------------------------------------------------------------------
GenReturned == result.fn = "generateFileDecorators"

\* the words of a text
WordsOf(text) == UNION {{text[i][j] : j \in DOMAIN text[i]} : i \in DOMAIN text}

\* the interfaces of package a that carry the directive
IgnoredInPackage ==
    UNION {IgnoredNames(ScannedPackage.Files[path]) : path \in DOMAIN ScannedPackage.Files}

\* C12: an interface whose own doc comment, or whose declaration group's doc
\* comment, contains the line //ddtrace:ignore is never in the result of
\* ScanPackage and is never rendered into an output file, whatever the other
\* interfaces of the file are and whether or not they are generated.
IgnoredNeverScannedNorRendered ==
    /\ ScanReturned =>
          \A k \in DOMAIN result.ret.files :
             \A i \in DOMAIN result.ret.files[k].Interfaces :
                result.ret.files[k].Interfaces[i].Name \notin IgnoredInPackage
    /\ GenReturned =>
          /\ \A i \in DOMAIN result.fg.Interfaces :
                result.fg.Interfaces[i].Name \notin IgnoredInPackage
          /\ \A i \in DOMAIN result.parts :
                WordsOf(result.parts[i]) \cap IgnoredInPackage = {}
          /\ \A path \in result.touched :
                WordsOf(fs[path].content.text) \cap IgnoredInPackage = {}

\* an output file was written for a file in which one interface of a
\* declaration group carries the directive and another does not
GeneratedBesideIgnored ==
    /\ GenReturned
    /\ result.touched # {}
    /\ \E d \in DOMAIN fs[JoinPath(DirA, result.fg.FileName)].content.decls :
          LET gd == fs[JoinPath(DirA, result.fg.FileName)].content.decls[d]
          IN  /\ Len(gd.Specs) = 2
              /\ hasIgnoreDirective(gd.Specs[1].Doc)
              /\ ~hasIgnoreDirective(gd.Specs[2].Doc)

\* the source file of the call, and how the generator fares on the i-th
\* interface of its file group
GenSource == fs[JoinPath(DirA, result.fg.FileName)].content

RenderOf(i) == DeclOf(GenSource, result.fg.Interfaces[i].Name).render

\* the interfaces of the file group that render, in the order of the group
RenderedIndexes ==
    SelectSeq([i \in DOMAIN result.fg.Interfaces |-> i], LAMBDA i : RenderOf(i) # "err")

TypeLine(name) == <<"type", " ", name, "WithTracing">>

HasLine(text, line) == \E i \in DOMAIN text : TrimSpace(text[i]) = line

\* C14: in generateFileDecorators the failure to resolve or render an
\* interface never makes the call return an error and never keeps the
\* interfaces listed after it from being rendered; when no interface of the
\* file renders, no output file is written or touched and the call returns
\* nil.
RenderFailureSkipsOneInterface ==
    [][(result.fn = "none" /\ result'.fn = "generateFileDecorators") =>
         LET fg == result'.fg
             f == fs[JoinPath(DirA, fg.FileName)].content
             render(i) == DeclOf(f, fg.Interfaces[i].Name).render
             path == result'.outFilePath
         IN  /\ (\A i \in DOMAIN fg.Interfaces : render(i) \in {"ok", "err"})
                   => result'.err = NilErr
             /\ \A i \in DOMAIN fg.Interfaces :
                   render(i) # "err" =>
                       \E k \in DOMAIN result'.parts :
                          HasLine(result'.parts[k], TypeLine(fg.Interfaces[i].Name))
             /\ \A i \in DOMAIN fg.Interfaces :
                   (render(i) = "ok" /\ result'.err = NilErr) =>
                       /\ path \in DOMAIN fs'
                       /\ HasLine(fs'[path].content.text, TypeLine(fg.Interfaces[i].Name))
             /\ (\A i \in DOMAIN fg.Interfaces : render(i) = "err")
                   => (fs' = fs /\ result'.err = NilErr)]_vars

\* the generator failed on the first interface of the file, rendered a
\* later one, and the call returned nil with the output file written
RenderedAfterFailure ==
    /\ GenReturned
    /\ Len(result.fg.Interfaces) >= 2
    /\ RenderOf(1) = "err"
    /\ \E i \in DOMAIN result.fg.Interfaces : RenderOf(i) = "ok"
    /\ result.err = NilErr
    /\ result.touched = {result.outFilePath}

\* the lines of a header: a package clause or an import
IsHeaderLine(line) ==
    \/ HasPrefix(TrimSpace(line), <<"package", " ">>)
    \/ HasPrefix(TrimSpace(line), <<"import", " ">>)
    \/ TrimSpace(line) = <<"import(">>

HasHeader(text) == \E i \in DOMAIN text : IsHeaderLine(text[i])

\* C15: of the interfaces of one source file rendered into one output unit,
\* exactly the first one rendered contributes its header (import block);
\* every interface rendered after it contributes only its body text, for any
\* number of interfaces and any subset of them failing to render.
OnlyFirstRenderedHasHeader ==
    GenReturned =>
        /\ Len(result.parts) = Len(RenderedIndexes)
        /\ \A k \in DOMAIN result.parts :
              /\ HasLine(result.parts[k],
                         TypeLine(result.fg.Interfaces[RenderedIndexes[k]].Name))
              /\ HasHeader(result.parts[k]) <=> (k = 1)
              /\ k = 1 => HasLine(result.parts[k], <<"_sourcePkg">>)
              /\ k > 1 => TrimSpace(result.parts[k][1])
                             = TypeLine(result.fg.Interfaces[RenderedIndexes[k]].Name)

\* three interfaces of which the second fails: the first contributes the
\* header, the third its body only
TwoRenderedAroundFailure ==
    /\ GenReturned
    /\ Len(result.fg.Interfaces) = 3
    /\ RenderOf(1) = "ok" /\ RenderOf(2) = "err" /\ RenderOf(3) = "ok"
    /\ Len(result.parts) = 2
    /\ HasHeader(result.parts[1])
    /\ ~HasHeader(result.parts[2])

ResolveReturned == result.fn = "ResolvePackages"

\* the paths a recursive pattern expands to that have the pattern's merged
\* output directory name as a segment below the first
InOutputDir(pattern) ==
    LET merged == mergePackageConfig(cfg, cfg.Packages[pattern])
        paths == goListPackages(fs, pattern)
    IN  {paths[i] : i \in {j \in DOMAIN paths :
            \E k \in 2..Len(Segments(paths[j])) : Segments(paths[j])[k] = merged.Output}}

RecursivePatterns == {pattern \in DOMAIN cfg.Packages : HasSuffix(pattern, RecursiveSuffix)}

\* C16: the expansion of a recursive pattern by ResolvePackages holds no
\* import path that has the pattern's merged output directory name as a path
\* segment (the output directory of a package, or a package below it),
\* whatever Config.Exclude lists.
OutputDirAutoExcluded ==
    ResolveReturned =>
        \A pattern \in RecursivePatterns : \A p \in InOutputDir(pattern) :
            \A i \in DOMAIN result.ret :
                ~(/\ result.ret[i].ImportPath = p
                  /\ result.ret[i].Config = mergePackageConfig(cfg, cfg.Packages[pattern]))

\* a pattern with its own output directory expanded, without exclude entries,
\* over an output directory and a package below one, with packages kept
OutputDirDropped ==
    /\ ResolveReturned
    /\ cfg.Exclude = {}
    /\ \E pattern \in RecursivePatterns :
          /\ cfg.Packages[pattern].Output \notin {NoOutput, cfg.Output}
          /\ \E p, q \in InOutputDir(pattern) :
                /\ HasSuffix(p, Slash \o cfg.Packages[pattern].Output)
                /\ ~HasSuffix(q, Slash \o cfg.Packages[pattern].Output)
    /\ result.ret # <<>>

ExcludeReturned == result.fn = "shouldExclude"

\* C17: shouldExclude(importPath) is true exactly when some segment of
\* importPath, the first included, equals an entry of Config.Exclude.
ExcludesIffSomeSegmentListed ==
    ExcludeReturned =>
        (result.ret <=>
            \E k \in DOMAIN Segments(result.importPath) :
                Segments(result.importPath)[k] \in cfg.Exclude)

ProcessReturned == result.fn = "processInterface"

\* the interface processInterface was called on, and whether an interface
\* declares the colliding method itself
Root == input[result.root]

Declares(it) ==
    \E i \in DOMAIN it.Methods :
        it.Methods[i].kind = "func" /\ it.Methods[i].Name = CollidingName

\* the signature interface it gives the colliding method
OwnSignature(it) == Method(CollidingName, <<Param("x", it.Name)>>, <<>>)

\* the resolved method set of the a-th embedded interface of the root
SetOfEmbed(a) == processInterface(input, TypeNamed(input, EmbeddedRefs(Root)[a].Name))

\* C18: when the interface does not declare M itself, its resolved set
\* holds M with the signature of the first listed embedded interface whose
\* set holds M, whatever a later embedded interface declares; when the
\* interface declares M itself, the set holds its own signature, wherever
\* the declaration stands among the embedded interfaces.
FirstEmbedWinsDirectWinsOverAll ==
    ProcessReturned =>
        /\ Declares(Root) =>
              /\ CollidingName \in DOMAIN result.ret
              /\ result.ret[CollidingName] = OwnSignature(Root)
        /\ ~Declares(Root) =>
              \A a, b \in DOMAIN EmbeddedRefs(Root) :
                  ( /\ a < b
                    /\ CollidingName \in DOMAIN SetOfEmbed(a)
                    /\ CollidingName \in DOMAIN SetOfEmbed(b)
                    /\ SetOfEmbed(a)[CollidingName] # SetOfEmbed(b)[CollidingName]
                    /\ \A c \in 1..(a - 1) : CollidingName \notin DOMAIN SetOfEmbed(c) )
                  => ( /\ CollidingName \in DOMAIN result.ret
                       /\ result.ret[CollidingName] = SetOfEmbed(a)[CollidingName] )

\* two embedded interfaces with different signatures of M, not redeclared
FirstOfTwoEmbedsWon ==
    /\ ProcessReturned
    /\ ~Declares(Root)
    /\ \E a, b \in DOMAIN EmbeddedRefs(Root) :
          /\ a < b
          /\ CollidingName \in DOMAIN SetOfEmbed(a)
          /\ CollidingName \in DOMAIN SetOfEmbed(b)
          /\ SetOfEmbed(a)[CollidingName] # SetOfEmbed(b)[CollidingName]
          /\ result.ret[CollidingName] = SetOfEmbed(a)[CollidingName]

IndexOfType(name) == CHOOSE k \in 1..MaxLevels : InterfaceNames[k] = name

\* the interfaces at the end of a chain of embedding that starts at
\* interface k and passes, before its end, through no interface that
\* declares M
RECURSIVE Unshadowed(_)
Unshadowed(k) ==
    {k} \cup
    (IF Declares(input[k])
       THEN {}
       ELSE UNION {Unshadowed(IndexOfType(EmbeddedRefs(input[k])[i].Name)) :
                      i \in DOMAIN EmbeddedRefs(input[k])})

VisibleDeclarers == {d \in Unshadowed(result.root) : Declares(input[d])}

\* C19: the resolved set holds M exactly when a declaration of M is
\* reached from the root, and the signature it holds is declared at the end
\* of a chain of embedding on which no level closer to the root declares M:
\* a declaration below a redeclaring level never shows through it.
ClosestToRootWins ==
    ProcessReturned =>
        /\ CollidingName \in DOMAIN result.ret <=> VisibleDeclarers # {}
        /\ CollidingName \in DOMAIN result.ret =>
              \E d \in VisibleDeclarers : result.ret[CollidingName] = OwnSignature(input[d])

\* a chain of three levels: the root embeds an interface that declares M and
\* embeds a third one that declares M too
MiddleLevelShadowedInner ==
    /\ ProcessReturned
    /\ ~Declares(Root)
    /\ \E a \in DOMAIN EmbeddedRefs(Root) :
          LET mid == TypeNamed(input, EmbeddedRefs(Root)[a].Name) IN
          /\ Declares(mid)
          /\ \E b \in DOMAIN EmbeddedRefs(mid) : Declares(TypeNamed(input, EmbeddedRefs(mid)[b].Name))
          /\ result.ret[CollidingName] = OwnSignature(mid)

TemplateExecuted == result.fn = "datadogTemplate"

\* the lines of the text that hold the word w
LinesWith(text, w) == {j \in DOMAIN text : \E k \in DOMAIN text[j] : text[j][k] = w}

\* a wrapper of method name at line j: the func line of a receiver, then the
\* StartSpan line and the FinishSpan line
WrapperAt(text, j, name) ==
    /\ j + 2 <= Len(text)
    /\ text[j] # <<>> /\ text[j + 1] # <<>>
    /\ Head(text[j]) = "func" /\ text[j][Len(text[j])] = name
    /\ "(_d" \in {text[j][k] : k \in DOMAIN text[j]}
    /\ "StartSpan" \in {text[j + 1][k] : k \in DOMAIN text[j + 1]}
    /\ text[j + 1][Len(text[j + 1])] = name
    /\ "FinishSpan" \in {text[j + 2][k] : k \in DOMAIN text[j + 2]}

\* C20: the text of the body template holds a wrapper with a StartSpan and
\* a FinishSpan line for a method exactly when the method's first parameter
\* is a context; the name of any other method appears nowhere in the text,
\* there are as many StartSpan and FinishSpan lines as wrapped methods, and
\* the decorator struct embeds the interface.
WrapperIffAcceptsContext ==
    TemplateExecuted =>
        LET methods == input.iface.Methods
            wrapped == {i \in DOMAIN methods :
                          Len(methods[i].Params) > 0 /\ methods[i].Params[1].Type = ContextType}
        IN  /\ \A i \in DOMAIN methods :
                  /\ (\E j \in DOMAIN result.text : WrapperAt(result.text, j, methods[i].Name))
                        <=> i \in wrapped
                  /\ i \notin wrapped => LinesWith(result.text, methods[i].Name) = {}
            /\ Cardinality(LinesWith(result.text, "StartSpan")) = Cardinality(wrapped)
            /\ Cardinality(LinesWith(result.text, "FinishSpan")) = Cardinality(wrapped)
            /\ \E j \in DOMAIN result.text :
                  /\ j > 1
                  /\ result.text[j - 1] # <<>>
                  /\ Head(result.text[j - 1]) = "type"
                  /\ result.text[j] = <<" ", input.iface.Name>>

\* an interface with a method that leads with a context and a method whose
\* context is its second parameter, rendered
ContextSecondNotWrapped ==
    /\ TemplateExecuted
    /\ \E i, k \in DOMAIN input.iface.Methods :
          /\ AcceptsContext(input.iface.Methods[i])
          /\ Len(input.iface.Methods[k].Params) = 2
          /\ input.iface.Methods[k].Params[2].Type = ContextType
          /\ ~AcceptsContext(input.iface.Methods[k])
          /\ \E j \in DOMAIN result.text : WrapperAt(result.text, j, input.iface.Methods[i].Name)
          /\ LinesWith(result.text, input.iface.Methods[k].Name) = {}

\* the calls of a sequence made on the named function
CallsOf(made, fn) == {i \in DOMAIN made : made[i].fn = fn}

FinishedByConfig == span.by = "TracingConfig" /\ span.finished

\* C21: a TracingConfig.FinishSpan call calls span.Finish once, as its last
\* call; with a span decorator it calls the decorator once, with the params
\* and the results, and sets no tag whatever err is; without one it sets
\* the three error tags exactly when err is not nil.
FinishSpanDecoratesOrTagsThenFinishes ==
    FinishedByConfig =>
        LET f == span.finishes
            decorator == span.d._cfg.spanDecorator
        IN  /\ CallsOf(f, "Finish") = {Len(f)}
            /\ decorator # NilFunc =>
                  f = <<Call(decorator, <<"params", "results">>), Call("Finish", <<>>)>>
            /\ decorator = NilFunc =>
                  /\ CallsOf(f, "SetTag") # {} <=> span.err # NilError
                  /\ span.err # NilError =>
                        {f[i].args[1] : i \in CallsOf(f, "SetTag")}
                            = {"error", "error.msg", "error.type"}
                  /\ \A i \in DOMAIN f : f[i].fn \in {"SetTag", "Finish"}

\* FinishSpan of a config with a span decorator, called with an error
DecoratedFinishWithError ==
    /\ FinishedByConfig
    /\ span.d._cfg.spanDecorator # NilFunc
    /\ span.err # NilError

\* C22: a TracingConfig.StartSpan call creates the span first, then calls
\* the global context decorator when one is set, then the instance's when
\* one is set, each at most once and the instance's never before the
\* global one.
StartSpanDecoratorsInOrder ==
    span.by = "TracingConfig" =>
        LET st == span.starts
            global == CallsOf(st, "globalDecorator")
            own == CallsOf(st, "contextDecorator")
        IN  /\ CallsOf(st, "StartSpanFromContext") = {1}
            /\ Cardinality(global) = (IF span.decorator # NilFunc THEN 1 ELSE 0)
            /\ Cardinality(own) = (IF span.d._cfg.contextDecorator # NilFunc THEN 1 ELSE 0)
            /\ \A i \in global : \A j \in own : i < j
            /\ Len(st) = 1 + Cardinality(global) + Cardinality(own)

\* a span started by a config with a context decorator while a global one is set
BothContextDecoratorsCalled ==
    /\ span.by = "TracingConfig"
    /\ span.decorator # NilFunc
    /\ span.d._cfg.contextDecorator # NilFunc

\* the options the tracer got for the span
SpanOpts == span.starts[1].args

\* C23 as stated: every span, whoever starts it, gets the options of the
\* latest SetDefaultSpanOptions call before its own.
DefaultsPrependedToAllSpans ==
    span.by # "none" => SpanOpts = span.defaults \o span.own

\* C23: a span of the package-level StartSpan gets the global options in
\* force at the call, then its own; a span of a TracingConfig gets the
\* global options in force when NewTracingConfig built the config, then the
\* options of the instance.
DefaultsPrependedAsOfConstruction ==
    /\ span.by = "StartSpan" => SpanOpts = span.defaults \o span.own
    /\ span.by = "TracingConfig" => SpanOpts = span.d.defaults \o span.own

\* a span of a decorator built before the latest SetDefaultSpanOptions call
BuiltBeforeDefaultsChanged ==
    /\ span.by = "TracingConfig"
    /\ span.d.defaults # <<>>
    /\ span.d.defaults # span.defaults
    /\ span.own # <<>>

\* ------------------------------------------------------------------------
\* Seeding the cache
\* ------------------------------------------------------------------------
\* the step that ends g's lookup under the read lock
LookupEnds(g) == gpc[g] = "rlocked" /\ gpc'[g] # "rlocked"

\* a step of g's Seed call
SeedSteps(g) == gpc'[g] # gpc[g] /\ "seeding" \in {gpc[g], gpc'[g]}

\* C24: Seed performs no load, and every load(path) that starts after a Seed
\* of a map holding path returns the seeded package m[path] without an
\* underlying load, whatever the interleaving of Seed and load calls of
\* several goroutines.
SeededLoadsServedFromSeed ==
    [][/\ (\E g \in Goroutines : SeedSteps(g)) => loadCalls' = loadCalls
       /\ \A g \in Goroutines :
            (LookupEnds(g) /\ gpath[g] \in seeded)
                => /\ gpc'[g] = "idle"
                   /\ gret'[g] = [pkg |-> Pkg(gpath[g], 0), err |-> "nil"]
                   /\ loadCalls' = loadCalls]_vars

\* ------------------------------------------------------------------------
\* Failures of the shared setup
\* ------------------------------------------------------------------------
\* the call of the setup that failed in the run, "none" when all succeeded:
\* go list runs for a recursive pattern, LoadAll and the template parses run
\* for a regeneration set that is not empty
FailedSetupCall ==
    IF runNo = 0 THEN "none"
    ELSE IF toolFail = "golist"
      THEN (IF \E pat \in DOMAIN cfg.Packages : HasSuffix(pat, RecursiveSuffix)
              THEN "golist" ELSE "none")
    ELSE IF Len(toProcess) > 0 THEN toolFail
    ELSE "none"

\* the message runWithConfig wraps around the error of a failed setup call
SetupWrap(call) ==
    CASE call = "golist" -> "failed to resolve packages from config"
      [] call = "loadall" -> "failed to batch-load source packages"
      [] call = "header" -> "failed to parse header template"
      [] call = "body" -> "failed to parse body template"
      [] OTHER -> "nil"

\* C25: when pattern expansion, the batch load or a template parse fails, the
\* run returns that error, starts no worker (processPackage runs for no
\* package) and writes or touches no output file.
SetupFailureIsFatal ==
    FailedSetupCall # "none" =>
        /\ mpc = "returned"
        /\ ret.msg = SetupWrap(FailedSetupCall)
        /\ ret.cause # "nil"
        /\ \A i \in Workers : wpc[i] = "none"
        /\ wgCount = 0
        /\ calls = 0
        /\ writers = EmptyMap
        /\ fs = startFs

\* the body template failed to parse for a regeneration set of two packages
BodyTemplateFailed ==
    /\ FailedSetupCall = "body"
    /\ Len(toProcess) = 2
    /\ mpc = "returned"
    /\ ret.msg = "failed to parse body template"

\* ------------------------------------------------------------------------
\* Packages the loop of runWithConfig skips
\* ------------------------------------------------------------------------
\* package i of the regeneration set loaded with errors, or holds no Go file
\* besides tests
Unloadable(i) ==
    \/ toProcess[i].ImportPath \in pkgErrors
    \/ ~\E p \in ReadDir(startFs, PkgDir(toProcess[i].ImportPath)) :
            HasSuffix(Base(p), GoExt) /\ ~HasSuffix(Base(p), TestSuffix)

\* the files below the output directory of package i
OutputOf(fsys, i) ==
    {p \in DOMAIN fsys : HasPrefix(p, OutDir(toProcess[i]) \o Slash)}

\* C30: a package of the regeneration set that is absent from the batch-load
\* result or has no Go files is skipped: no worker is started for it, no
\* output is written for it, and it contributes no error to the value
\* runWithConfig returns.
UnloadablePackagesSkipped ==
    \A i \in Workers :
        Unloadable(i) =>
            /\ wpc[i] = "none"
            /\ werr[i] = NilErr
            /\ \A p \in DOMAIN writers : i \notin writers[p]
            /\ \A k \in DOMAIN reported : reported[k] # i
            /\ OutputOf(fs, i) = OutputOf(startFs, i)
            /\ \A p \in OutputOf(fs, i) : fs[p] = startFs[p]
            /\ firstErr.arg # toProcess[i].ImportPath
            /\ ret.arg # toProcess[i].ImportPath

\* the run returned: a package that loaded with errors and a test-only package
\* were passed over while a third package was generated
SkippedBesideGenerated ==
    /\ mpc = "returned"
    /\ \E i, j, k \in Workers :
          /\ toProcess[i].ImportPath \in pkgErrors
          /\ toProcess[j].ImportPath \notin pkgErrors
          /\ Unloadable(j)
          /\ wpc[i] = "none"
          /\ wpc[j] = "none"
          /\ wpc[k] = "done"

\* ------------------------------------------------------------------------
\* Failed packages and the next run
\* ------------------------------------------------------------------------
\* goroutine i of the run that just ended failed after it had written or
\* touched an output file of its package
FailedAfterOutput(i) ==
    /\ werr[i] # NilErr
    /\ \E p \in DOMAIN writers : i \in writers[p]

\* C26: a package whose generation failed in a run, after some of its output
\* files were written or touched, is in the regeneration set of the next
\* non-forced run, even when no source or configuration file changed in
\* between (its last successful output is older than its sources, or absent).
FailedPackageRegenerated ==
    [][(/\ mpc = "returned"
        /\ runNo >= 1
        /\ runNo' = runNo + 1
        /\ ~force'
        /\ changed = {})
         => \A i \in DOMAIN werr :
               FailedAfterOutput(i) =>
                   \E j \in DOMAIN toProcess' :
                       toProcess'[j].ImportPath = toProcess[i].ImportPath]_vars

\* ------------------------------------------------------------------------
\* Termination of the run
\* ------------------------------------------------------------------------
\* the goroutines the loop started
Started == {i \in Workers : wpc[i] # "none"}

\* C27: runWithConfig eventually returns for every regeneration set and every
\* scheduling; the slots taken are at every moment those of the goroutines
\* between acquire and release (each goroutine releases once, also after a
\* failure), and when the run returns every started goroutine has released
\* its slot and signalled the wait group: no slot stays held.
RunReturnsAndFreesSlots ==
    /\ [](/\ semCount = Cardinality(HoldingSlot)
          /\ wgCount = Cardinality({i \in Workers : wpc[i] \notin {"none", "done"}}))
    /\ (mpc = "spawn") ~> (/\ mpc = "returned"
                           /\ semCount = 0
                           /\ wgCount = 0
                           /\ \A i \in Started : wpc[i] = "done")

\* the run returned an error after two goroutines shared the only slot
ReturnedAfterSharingOneSlot ==
    /\ mpc = "returned"
    /\ semCap = 1
    /\ semCount = 0
    /\ Cardinality(Started) >= 2
    /\ \A i \in Started : wpc[i] = "done"
    /\ \E i \in Started : werr[i] # NilErr

\* ------------------------------------------------------------------------
\* The //go:generate directive
\* ------------------------------------------------------------------------
\* the text holds the //go:generate line of the file header
HasGoGenerate(text) ==
    \E k \in DOMAIN text : Len(text[k]) >= 2 /\ text[k][2] = "go:generate"

\* the output files goroutine i of the last run wrote or touched
ProducedBy(i) == {p \in DOMAIN writers : i \in writers[p]}

\* C28: when the directive is not suppressed and a package run produces at
\* least one output file, the //go:generate directive stands in the first
\* output file produced for the package (the loop goes through the source
\* files in the order of their names) and in no other output file of it.
GoGenerateInFirstOutputOnly ==
    (mpc = "returned" /\ ~cfg.NoGenerate) =>
        \A i \in Workers :
            \A p \in ProducedBy(i) :
                HasGoGenerate(fs[p].content.text)
                    <=> \A q \in ProducedBy(i) \ {p} : LexLess(Base(p), Base(q))

\* ------------------------------------------------------------------------
\* Cycles of embedding
\* ------------------------------------------------------------------------
\* the interfaces the named interfaces embed
EmbeddedBy(types, names) ==
    UNION {{f.Name : f \in {EmbeddedRefs(TypeNamed(types, n))[i] :
                               i \in DOMAIN EmbeddedRefs(TypeNamed(types, n))}} : n \in names}

\* the interfaces reached from names by one to k steps of embedding
RECURSIVE ReachedWithin(_, _, _)
ReachedWithin(types, names, k) ==
    IF k = 0 THEN {}
    ELSE EmbeddedBy(types, names) \cup ReachedWithin(types, EmbeddedBy(types, names), k - 1)

\* the embedding graph of the root interface holds a cycle
CyclicFromRoot(types) ==
    \E n \in {InterfaceNames[1]} \cup ReachedWithin(types, {InterfaceNames[1]}, Len(types)) :
        n \in ReachedWithin(types, {n}, Len(types))

\* C29: the resolution of an interface whose embedding graph holds a cycle
\* ends, and ends with the dedicated CyclicEmbedding error: it neither
\* returns a method set nor recurses until the stack is used up.
CyclicEmbeddingReported ==
    (result.fn = "processInterface" /\ CyclicFromRoot(input)) =>
        result.status \in {"running", "CyclicEmbedding"}

====
